---- MODULE Spec2Model ----
(***************************************************************************)
(* Model of the sync backend: the POST /sync/data handler of               *)
(* routes/syncApi.js running on dbService.transaction, against the tables  *)
(* created by GET /initialize (sync_users, sync_logs, acc_users,           *)
(* acc_master) under PostgreSQL's default READ COMMITTED isolation.        *)
(*                                                                         *)
(* Every request is handled by its own process; a process is suspended at  *)
(* every storage call (await), so the storage calls of different requests  *)
(* interleave freely.  A transaction's writes stay in its private write    *)
(* set until COMMIT; a statement sees the committed rows plus the          *)
(* transaction's own writes.  ROLLBACK is taken to succeed.                *)
(***************************************************************************)
EXTENDS Integers, Sequences, FiniteSets, TLC

\* ------------------------------------------------------------------ bounds
NumProcs == 2
MaxRequests == 2
MaxBatch == 2
MaxFaults == 1
MaxLogins == 2
PoolMax == 1
MaxCalls == 3
MaxTxFaults == 2

Procs == 1..NumProcs

\* ------------------------------------------------------------- JS values
Undefined == "<undefined>"
JsNull == "<null>"

\* !v
Falsy(v) == v \in {"", Undefined, JsNull}

\* a || b
JsOr(a, b) == IF Falsy(a) THEN b ELSE a

\* row.k : the value under key k, undefined when the row has no such key
Prop(row, k) == IF k \in DOMAIN row THEN row[k] ELSE Undefined

\* ------------------------------------------------------------ input space
\* Rows a client may send.  Keys are spelled as in the JSON body.
RowPool ==
  { [ID |-> "1", PASS |-> "p1"],
    [ID |-> "u1", PASS |-> "p1"],
    [CODE |-> "C1", NAME |-> "Acme"],
    [NAME |-> "Nocode"] }

RECURSIVE SeqsUpTo(_, _)
SeqsUpTo(S, n) ==
  IF n = 0 THEN { <<>> }
  ELSE LET shorter == SeqsUpTo(S, n - 1)
       IN  shorter \cup { Append(s, x) : s \in { t \in shorter : Len(t) = n - 1 }, x \in S }

Batches == SeqsUpTo(RowPool, MaxBatch)

\* The data field of a body: a JSON array of rows, or anything else (an
\* object, a string, absent).
ArrayOf(rows) == [isArray |-> TRUE, rows |-> rows]
NotAnArray == [isArray |-> FALSE, rows |-> <<>>]

\* The client records present from the start: two clients created through
\* POST /add-users, each with the access token issued to it.
\* A sync_users row keeps, of its columns, the SERIAL id, client_id and
\* access_token.
InitialUsers ==
  { [id |-> 1, client_id |-> "c1", access_token |-> "t1"],
    [id |-> 2, client_id |-> "c2", access_token |-> "t2"] }

\* the client identifiers of a set of sync_users rows
ClientIds(users) == { r.client_id : r \in users }

\* the access token a client was issued at the start
IssuedToken(c) == (CHOOSE r \in InitialUsers : r.client_id = c).access_token

\* Well-formed requests of registered clients with their own token: every
\* batch for client c1, the batches one row shorter for client c2.
GoodRequests ==
  { [clientId |-> "c1", accessToken |-> IssuedToken("c1"),
     data |-> ArrayOf(b)] : b \in Batches }
  \cup
  { [clientId |-> "c2", accessToken |-> IssuedToken("c2"),
     data |-> ArrayOf(b)] : b \in SeqsUpTo(RowPool, MaxBatch - 1) }

\* Well-formed requests whose pair matches no client record: another
\* client's token, or a client identifier that was never issued.
BadCredentialRequests ==
  { [clientId |-> "c1", accessToken |-> "t2",
     data |-> ArrayOf(<< [ID |-> "1", PASS |-> "p1"], [CODE |-> "C1", NAME |-> "Acme"] >>)],
    [clientId |-> "c9", accessToken |-> "t1",
     data |-> ArrayOf(<< [CODE |-> "C1", NAME |-> "Acme"] >>)] }

\* Requests that miss a field or carry a data field that is not an array.
MalformedRequests ==
  { [clientId |-> "",   accessToken |-> "t1", data |-> ArrayOf(<< [CODE |-> "C1", NAME |-> "Acme"] >>)],
    [clientId |-> "c1", accessToken |-> "",   data |-> ArrayOf(<< [CODE |-> "C1", NAME |-> "Acme"] >>)],
    [clientId |-> "c1", accessToken |-> "t1", data |-> NotAnArray],
    [clientId |-> Undefined, accessToken |-> Undefined, data |-> NotAnArray] }

Requests == GoodRequests \cup BadCredentialRequests \cup MalformedRequests

\* ------------------------------------------------------------------ state
VARIABLES
  sync_users,   \* committed sync_users rows
  acc_users,    \* committed acc_users rows
  acc_master,   \* committed acc_master rows
  sync_logs,    \* committed sync_logs rows, in commit order
  pc,           \* where each request handler is suspended
  req,          \* req.body of the request in progress
  reqNo,        \* the number of the request in progress (its order of arrival)
  tx,           \* the open transaction's write set and pending statement
  recordCount,  \* let recordCount
  idx,          \* position of the for..of loop in data
  err,          \* the error caught by the handler's catch
  logErr,       \* the error caught while logging the failure
  resp,         \* the response sent
  nReq,         \* requests received so far
  nFaults,      \* storage faults so far
  lastSync,     \* per client, the last committed sync: its request number, its
                \* data, and whether the sync committed before it had the same data
  areq,         \* req.params and req.body of the admin or log request in progress
  nTokens,      \* access tokens generated so far
  retired,      \* the (client, access token) pairs an update has replaced
  sync_admin,   \* committed sync_admin: per admin, the session token stored
  gate,         \* per request, the session cookie and what the gate attached
  call,         \* per caller, the call of dbService.transaction in progress
  idleConns     \* connections idle in the pool

vars == << sync_users, acc_users, acc_master, sync_logs, pc, req, reqNo, tx,
           recordCount, idx, err, logErr, resp, nReq, nFaults, lastSync,
           areq, nTokens, retired, sync_admin, gate, call, idleConns >>

\* the admin session state
session == << sync_admin, gate >>

\* what the handlers of /sync/data leave alone
registry == << areq, nTokens, retired, session >>

NoReq == [clientId |-> Undefined, accessToken |-> Undefined, data |-> NotAnArray]
NoError == [message |-> "", stmt |-> ""]
NoResp == [status |-> 0, success |-> FALSE, recordCount |-> 0, error |-> ""]
EmptyTx == [delM |-> {}, delU |-> {}, insM |-> {}, insU |-> {}, insL |-> <<>>, tgt |-> {},
            delL |-> {}, delS |-> {}, insS |-> {}]
NoAdminReq == [clientId |-> Undefined]

\* no call of dbService.transaction in progress: at is where the call is
\* suspended, cb what its callback will do, client whether it holds a pooled
\* connection, stmts the statements it has sent on that connection, error the
\* error its catch caught, thrown what it threw to its caller, releases how
\* often it has called client.release()
NoCall == [at |-> "idle", cb |-> "", client |-> FALSE, stmts |-> <<>>,
           error |-> NoError, thrown |-> NoError, releases |-> 0]

\* the connection pool and the calls of dbService.transaction using it
pooling == << call, idleConns >>

\* what only the handler of /sync/data uses
syncOnly == << req, recordCount, idx, logErr, lastSync >>

\* A session token is a signed token carrying an admin identity and an
\* expiry; n tells one of an admin's tokens from another.  NoToken stands for
\* an absent cookie and for a stored NULL.
NoToken == [adminId |-> "", signed |-> FALSE, expired |-> FALSE, n |-> 0]
SessionToken(adminId, signed, expired, n) ==
  [adminId |-> adminId, signed |-> signed, expired |-> expired, n |-> n]
NoGate == [cookie |-> NoToken, adminId |-> Undefined]
Admins == {"a1"}

\* pcs at which the handler holds an open transaction
TxPcs == {"auth", "delM", "delMw", "delU", "delUw", "ins", "log", "commit"}

\* ------------------------------------------------- the handler's pure parts
\* a validation that does not ask data to be an array
ValidInputAnyData(body) ==
  /\ ~Falsy(body.clientId)
  /\ ~Falsy(body.accessToken)

\* if (!clientId || !accessToken || !Array.isArray(data)) return 400
ValidInput(body) ==
  /\ ~Falsy(body.clientId)
  /\ ~Falsy(body.accessToken)
  /\ body.data.isArray

\* SELECT client_id FROM sync_users WHERE client_id=$1 AND access_token=$2
AuthSelect(users, clientId, accessToken) ==
  { r \in users : r.client_id = clientId /\ r.access_token = accessToken }

\* a handler that does not look at the lookup's row count
UnauthorizedNever(rowCount) == FALSE

\* if (clientCheck.rowCount === 0) throw new Error("UNAUTHORIZED")
Unauthorized(rowCount) == rowCount = 0

\* const userId = row.ID || row.id;  const userPass = row.PASS || row.pass
UserId(row) == JsOr(Prop(row, "ID"), Prop(row, "id"))
UserPass(row) == JsOr(Prop(row, "PASS"), Prop(row, "pass"))

\* if (userId && userPass)
IsUserRow(row) == ~Falsy(UserId(row)) /\ ~Falsy(UserPass(row))

\* the master branch's field extraction: row.CODE || row.code || null, ...
MasterFields(row) ==
  [ code       |-> JsOr(JsOr(Prop(row, "CODE"), Prop(row, "code")), JsNull),
    name       |-> JsOr(JsOr(Prop(row, "NAME"), Prop(row, "name")), JsNull),
    address    |-> JsOr(JsOr(Prop(row, "ADDRESS"), Prop(row, "address")), JsNull),
    place      |-> JsOr(JsOr(JsOr(JsOr(Prop(row, "PLACE"), Prop(row, "place")),
                                  Prop(row, "BRANCH")), Prop(row, "branch")), JsNull),
    super_code |-> JsOr(JsOr(JsOr(Prop(row, "SUPERCODE"), Prop(row, "super_code")),
                             Prop(row, "SUPER_CODE")), JsNull) ]

\* ------------------------------------------------------------ the storage
\* acc_users.id is SERIAL PRIMARY KEY: an integer column.  The text of a
\* parameter is parsed as an integer; a text that is no integer is refused.
IntegerOf == ("1" :> 1) @@ ("01" :> 1) @@ ("2" :> 2)
IsInteger(text) == text \in DOMAIN IntegerOf

InvalidInteger == "invalid input syntax for type integer"
DuplicateKey == "duplicate key value violates unique constraint acc_users_pkey"
ForeignKey == "insert on table sync_logs violates foreign key constraint"
StorageFault == "storage fault"
UNAUTHORIZED == "UNAUTHORIZED"

\* The row INSERT INTO acc_users (id, pass, client_id) stores.  xmin, the
\* inserting transaction, tells one row version from a later one with the
\* same key.
UserRow(userId, userPass, clientId, xid) ==
  [id |-> IntegerOf[userId], pass |-> userPass, client_id |-> clientId, xmin |-> xid]

\* The row INSERT INTO acc_master (code, name, address, place, super_code,
\* client_id) stores.  id, the SERIAL key, is unique per inserted row: the
\* inserting transaction and the statement's position in it.
MasterRow(f, clientId, xid, n) ==
  [id |-> <<xid, n>>, code |-> f.code, name |-> f.name, address |-> f.address,
   place |-> f.place, super_code |-> f.super_code, client_id |-> clientId, xmin |-> xid]

\* The row INSERT INTO sync_logs (client_id, records_synced, status, message)
LogRow(clientId, n, status, message, xid) ==
  [client_id |-> clientId, records_synced |-> n, status |-> status,
   message |-> message, xmin |-> xid]

\* a sync_logs table whose client_id references nothing
ForeignKeyUnchecked(users, clientId) == TRUE

\* sync_logs.client_id REFERENCES sync_users(client_id)
ForeignKeyHolds(users, clientId) == \E r \in users : r.client_id = clientId

\* a purge that takes every client's rows
PurgeEveryClient(table, clientId) == table

\* a purge that deletes nothing
PurgeNothing(table, clientId) == {}

\* DELETE FROM <table> WHERE client_id=$1 : the rows the statement targets
PurgeTargets(table, clientId) == { r \in table : r.client_id = clientId }

\* a commit whose deletes take the transaction's own inserts with them
AfterCommitPurgesInserts(table, del, ins) == table \ del

\* COMMIT: the transaction's deletes and inserts become the committed rows
AfterCommit(table, del, ins) == (table \ del) \cup ins

\* a commit that loses the transaction's sync_logs entries
LogsAfterCommitLost(logs, ins) == logs

\* COMMIT: the sync_logs entries the transaction inserted follow the
\* committed ones
LogsAfterCommit(logs, ins) == logs \o ins

\* a rollback that discards the inserts and keeps the deletes
AfterRollbackKeepsDeletes(table, del, ins) == table \ del

\* ROLLBACK: the transaction's deletes and inserts are discarded
AfterRollback(table, del, ins) == table

\* A row another open transaction has deleted is locked until that
\* transaction ends.
LockedByOther(p, r) ==
  \E q \in Procs \ {p} : r \in tx[q].delM \cup tx[q].delU

\* An INSERT of key id waits while another open transaction holds an
\* uncommitted insert of the key or an uncommitted delete of its row.
KeyHeldByOther(p, id) ==
  \E q \in Procs \ {p} :
     \/ \E r \in tx[q].insU : r.id = id
     \/ \E r \in tx[q].delU : r.id = id /\ r \in acc_users

\* the key is taken: by this transaction's own insert, or by a committed row
\* this transaction has not deleted
KeyTaken(p, id) ==
  \/ \E r \in tx[p].insU : r.id = id
  \/ \E r \in acc_users \ tx[p].delU : r.id = id /\ ~LockedByOther(p, r)

\* The foreign-key check of an INSERT INTO sync_logs locks the referenced
\* sync_users row: it waits while another open transaction holds an
\* uncommitted delete of that row.
ReferencedRowBusy(p, clientId) ==
  \E q \in Procs \ {p} : \E r \in tx[q].delS : r.client_id = clientId

\* --------------------------------------------------------------- actions
\* The syncs the initial state has behind it, each client's first: c1 sent a
\* credential row and a master row, c2 a credential row.  They are numbered
\* -1 and 0, before the requests the model receives.
FirstBatch ==
  [c \in ClientIds(InitialUsers) |->
     IF c = "c1" THEN << [ID |-> "1", PASS |-> "p1"], [CODE |-> "C1", NAME |-> "Acme"] >>
                 ELSE << [id |-> "2", pass |-> "p2"] >>]
FirstXid == [c \in ClientIds(InitialUsers) |-> IF c = "c1" THEN 0 - 1 ELSE 0]

\* The tables as GET /initialize created them, the two client records, and
\* what each client's first sync committed.
Init ==
  /\ sync_users = InitialUsers
  /\ acc_users = { UserRow("1", "p1", "c1", FirstXid["c1"]),
                   UserRow("2", "p2", "c2", FirstXid["c2"]) }
  /\ acc_master = { MasterRow(MasterFields(FirstBatch["c1"][2]), "c1", FirstXid["c1"], 2) }
  /\ sync_logs = << LogRow("c1", 2, "SUCCESS", "Sync completed successfully", FirstXid["c1"]),
                    LogRow("c2", 1, "SUCCESS", "Sync completed successfully", FirstXid["c2"]) >>
  /\ pc = [p \in Procs |-> "idle"]
  /\ req = [p \in Procs |-> NoReq]
  /\ reqNo = [p \in Procs |-> 0]
  /\ tx = [p \in Procs |-> EmptyTx]
  /\ recordCount = [p \in Procs |-> 0]
  /\ idx = [p \in Procs |-> 0]
  /\ err = [p \in Procs |-> NoError]
  /\ logErr = [p \in Procs |-> NoError]
  /\ resp = [p \in Procs |-> NoResp]
  /\ nReq = 0
  /\ nFaults = 0
  /\ areq = [p \in Procs |-> NoAdminReq]
  /\ nTokens = 0
  /\ retired = {}
  /\ sync_admin = [a \in Admins |-> NoToken]
  /\ gate = [p \in Procs |-> NoGate]
  /\ call = [p \in Procs |-> NoCall]
  /\ idleConns = PoolMax
  /\ lastSync = [c \in ClientIds(InitialUsers) |->
                   [req |-> FirstXid[c], data |-> ArrayOf(FirstBatch[c]), repeat |-> FALSE]]

\* a catch that answers 500 whatever the error
FailureResponseAlways500(message) ==
  [status |-> 500, success |-> FALSE, recordCount |-> 0, error |-> "Server error"]

\* res.status(400).json({ error: "Missing required fields" })
BadRequest == [status |-> 400, success |-> FALSE, recordCount |-> 0,
               error |-> "Missing required fields"]

\* res.status(200).json(responsePayload)
SyncedResponse(n) == [status |-> 200, success |-> TRUE, recordCount |-> n, error |-> ""]

\* the catch's answer: 401 for UNAUTHORIZED, 500 for anything else
FailureResponse(message) ==
  IF message = UNAUTHORIZED
  THEN [status |-> 401, success |-> FALSE, recordCount |-> 0,
        error |-> "Invalid client ID or access token"]
  ELSE [status |-> 500, success |-> FALSE, recordCount |-> 0, error |-> "Server error"]

\* The 30-second response timeout's answer, and the state of a response
\* whose client has closed the connection.
TimedOut == [status |-> 503, success |-> FALSE, recordCount |-> 0,
             error |-> "Request timed out"]
Closed == [status |-> 0, success |-> FALSE, recordCount |-> 0, error |-> "connection closed"]
HeadersSent == "Cannot set headers after they are sent to the client"

\* What the caller has once the handler sends an answer: the answer, unless
\* the timeout has answered before or the connection is closed.
Sent(p, answer) == IF resp[p] = NoResp THEN answer ELSE resp[p]

\* A request arrives.  The handler validates the body and either answers 400
\* or takes a pooled connection and begins a transaction.
Receive(p, body) ==
  /\ pc[p] = "idle"
  /\ UNCHANGED registry
  /\ nReq < MaxRequests
  /\ nReq' = nReq + 1
  /\ reqNo' = [reqNo EXCEPT ![p] = nReq + 1]
  /\ req' = [req EXCEPT ![p] = body]
  /\ IF ValidInput(body)
     THEN /\ pc' = [pc EXCEPT ![p] = "auth"]
          /\ resp' = resp
     ELSE /\ pc' = [pc EXCEPT ![p] = "done"]
          /\ resp' = [resp EXCEPT ![p] = BadRequest]
  /\ UNCHANGED << sync_users, acc_users, acc_master, sync_logs, tx, recordCount,
                  idx, err, logErr, nFaults, lastSync >>
  /\ UNCHANGED pooling

\* The callback threw e (or BEGIN or COMMIT did): dbService.transaction rolls
\* back, releases the connection and rethrows to the handler's catch.
Abort(p, e) ==
  /\ acc_master' = AfterRollback(acc_master, tx[p].delM, tx[p].insM)
  /\ acc_users' = AfterRollback(acc_users, tx[p].delU, tx[p].insU)
  /\ tx' = [tx EXCEPT ![p] = EmptyTx]
  /\ err' = [err EXCEPT ![p] = e]
  /\ recordCount' = [recordCount EXCEPT ![p] = 0]
  /\ idx' = [idx EXCEPT ![p] = 0]
  /\ pc' = [pc EXCEPT ![p] = "failed"]
  /\ UNCHANGED << sync_users, sync_logs, req, reqNo, logErr, resp, nReq, lastSync >>

\* 1) Verify credentials
Authenticate(p) ==
  /\ pc[p] = "auth"
  /\ UNCHANGED registry
  /\ LET found == AuthSelect(sync_users, req[p].clientId, req[p].accessToken)
     IN  IF Unauthorized(Cardinality(found))
         THEN Abort(p, [message |-> UNAUTHORIZED, stmt |-> "auth"]) /\ UNCHANGED nFaults
         ELSE /\ pc' = [pc EXCEPT ![p] = "delM"]
              /\ UNCHANGED << sync_users, acc_users, acc_master, sync_logs, req, reqNo,
                              tx, recordCount, idx, err, logErr, resp, nReq, nFaults, lastSync >>
  /\ UNCHANGED pooling

\* after the purge: let recordCount = 0 and the loop over data begins
AfterPurge(p) == IF Len(req[p].data.rows) = 0 THEN "log" ELSE "ins"

\* 2) Clear out old data: DELETE FROM acc_master WHERE client_id=$1.  The
\* statement targets the rows committed when it starts; it waits when one of
\* them is locked by another open transaction.
DeleteMaster(p) ==
  /\ pc[p] = "delM"
  /\ UNCHANGED registry
  /\ LET targets == PurgeTargets(acc_master, req[p].clientId)
     IN  IF \E r \in targets : LockedByOther(p, r)
         THEN /\ tx' = [tx EXCEPT ![p].tgt = targets]
              /\ pc' = [pc EXCEPT ![p] = "delMw"]
         ELSE /\ tx' = [tx EXCEPT ![p].delM = targets]
              /\ pc' = [pc EXCEPT ![p] = "delU"]
  /\ UNCHANGED << sync_users, acc_users, acc_master, sync_logs, req, reqNo,
                  recordCount, idx, err, logErr, resp, nReq, nFaults, lastSync >>
  /\ UNCHANGED pooling

\* The waiting DELETE resumes once the locks are gone: it deletes those of its
\* targets that still exist and sees no row committed since it started.
DeleteMasterResume(p) ==
  /\ pc[p] = "delMw"
  /\ UNCHANGED registry
  /\ \A r \in tx[p].tgt \cap acc_master : ~LockedByOther(p, r)
  /\ tx' = [tx EXCEPT ![p].delM = tx[p].tgt \cap acc_master, ![p].tgt = {}]
  /\ pc' = [pc EXCEPT ![p] = "delU"]
  /\ UNCHANGED << sync_users, acc_users, acc_master, sync_logs, req, reqNo,
                  recordCount, idx, err, logErr, resp, nReq, nFaults, lastSync >>
  /\ UNCHANGED pooling

\* DELETE FROM acc_users WHERE client_id=$1
DeleteUsers(p) ==
  /\ pc[p] = "delU"
  /\ UNCHANGED registry
  /\ LET targets == PurgeTargets(acc_users, req[p].clientId)
     IN  IF \E r \in targets : LockedByOther(p, r)
         THEN /\ tx' = [tx EXCEPT ![p].tgt = targets]
              /\ pc' = [pc EXCEPT ![p] = "delUw"]
              /\ UNCHANGED << recordCount, idx >>
         ELSE /\ tx' = [tx EXCEPT ![p].delU = targets]
              /\ pc' = [pc EXCEPT ![p] = AfterPurge(p)]
              /\ recordCount' = [recordCount EXCEPT ![p] = 0]
              /\ idx' = [idx EXCEPT ![p] = 1]
  /\ UNCHANGED << sync_users, acc_users, acc_master, sync_logs, req, reqNo,
                  err, logErr, resp, nReq, nFaults, lastSync >>
  /\ UNCHANGED pooling

DeleteUsersResume(p) ==
  /\ pc[p] = "delUw"
  /\ UNCHANGED registry
  /\ \A r \in tx[p].tgt \cap acc_users : ~LockedByOther(p, r)
  /\ tx' = [tx EXCEPT ![p].delU = tx[p].tgt \cap acc_users, ![p].tgt = {}]
  /\ pc' = [pc EXCEPT ![p] = AfterPurge(p)]
  /\ recordCount' = [recordCount EXCEPT ![p] = 0]
  /\ idx' = [idx EXCEPT ![p] = 1]
  /\ UNCHANGED << sync_users, acc_users, acc_master, sync_logs, req, reqNo,
                  err, logErr, resp, nReq, nFaults, lastSync >>
  /\ UNCHANGED pooling

\* the loop moves to the next row, or leaves for step 4 after the last one
NextRow(p) ==
  /\ idx' = [idx EXCEPT ![p] = idx[p] + 1]
  /\ pc' = [pc EXCEPT ![p] = IF idx[p] = Len(req[p].data.rows) THEN "log" ELSE "ins"]

\* 3) Insert new rows, dispatching by row type: one turn of the loop.  A
\* failed INSERT is logged and rethrown.
InsertRow(p) ==
  /\ pc[p] = "ins"
  /\ UNCHANGED registry
  /\ LET row == req[p].data.rows[idx[p]]
         cid == req[p].clientId
     IN  IF IsUserRow(row)
         THEN IF ~IsInteger(UserId(row))
              THEN Abort(p, [message |-> InvalidInteger, stmt |-> "ins"]) /\ UNCHANGED nFaults
              ELSE IF KeyTaken(p, IntegerOf[UserId(row)])
              THEN Abort(p, [message |-> DuplicateKey, stmt |-> "ins"]) /\ UNCHANGED nFaults
              ELSE /\ ~KeyHeldByOther(p, IntegerOf[UserId(row)])
                   /\ tx' = [tx EXCEPT ![p].insU =
                               @ \cup {UserRow(UserId(row), UserPass(row), cid, reqNo[p])}]
                   /\ recordCount' = [recordCount EXCEPT ![p] = @ + 1]
                   /\ NextRow(p)
                   /\ UNCHANGED << sync_users, acc_users, acc_master, sync_logs, req,
                                   reqNo, err, logErr, resp, nReq, nFaults, lastSync >>
         ELSE /\ tx' = [tx EXCEPT ![p].insM =
                          @ \cup {MasterRow(MasterFields(row), cid, reqNo[p], idx[p])}]
              /\ recordCount' = [recordCount EXCEPT ![p] = @ + 1]
              /\ NextRow(p)
              /\ UNCHANGED << sync_users, acc_users, acc_master, sync_logs, req,
                              reqNo, err, logErr, resp, nReq, nFaults, lastSync >>
  /\ UNCHANGED pooling

\* 4) Log the operation, inside the transaction
InsertLog(p) ==
  /\ pc[p] = "log"
  /\ UNCHANGED registry
  /\ ~ReferencedRowBusy(p, req[p].clientId)
  /\ IF ForeignKeyHolds(sync_users, req[p].clientId)
     THEN /\ tx' = [tx EXCEPT ![p].insL =
                      Append(@, LogRow(req[p].clientId, recordCount[p], "SUCCESS",
                                       "Sync completed successfully", reqNo[p]))]
          /\ pc' = [pc EXCEPT ![p] = "commit"]
          /\ UNCHANGED << sync_users, acc_users, acc_master, sync_logs, req, reqNo,
                          recordCount, idx, err, logErr, resp, nReq, nFaults, lastSync >>
     ELSE Abort(p, [message |-> ForeignKey, stmt |-> "log"]) /\ UNCHANGED nFaults
  /\ UNCHANGED pooling

\* COMMIT, then 6) send back to client
Commit(p) ==
  /\ pc[p] = "commit"
  /\ UNCHANGED registry
  /\ acc_master' = AfterCommit(acc_master, tx[p].delM, tx[p].insM)
  /\ acc_users' = AfterCommit(acc_users, tx[p].delU, tx[p].insU)
  /\ sync_logs' = LogsAfterCommit(sync_logs, tx[p].insL)
  /\ tx' = [tx EXCEPT ![p] = EmptyTx]
  /\ resp' = [resp EXCEPT ![p] = Sent(p, SyncedResponse(recordCount[p]))]
  /\ lastSync' = [lastSync EXCEPT ![req[p].clientId] =
                     [req |-> reqNo[p], data |-> req[p].data, repeat |-> @.data = req[p].data]]
  /\ IF resp[p] = TimedOut
     THEN \* res.json throws inside the try: the handler's catch runs
          /\ pc' = [pc EXCEPT ![p] = "failed"]
          /\ err' = [err EXCEPT ![p] = [message |-> HeadersSent, stmt |-> "send"]]
     ELSE /\ pc' = [pc EXCEPT ![p] = "done"]
          /\ err' = err
  /\ UNCHANGED << sync_users, req, reqNo, recordCount, idx, logErr, nReq, nFaults >>
  /\ UNCHANGED pooling

\* A storage call of the open transaction fails for a reason of the
\* storage's own (connection lost, deadlock victim, statement timeout).
Fault(p) ==
  /\ pc[p] \in TxPcs
  /\ UNCHANGED registry
  /\ nFaults < MaxFaults
  /\ nFaults' = nFaults + 1
  /\ Abort(p, [message |-> StorageFault, stmt |-> pc[p]])
  /\ UNCHANGED pooling

\* The handler's catch: attempt to log the failure with a query of its own,
\* swallow a failure of that query, and answer 401 or 500.
LogFailure(p) ==
  /\ pc[p] = "failed"
  /\ UNCHANGED registry
  /\ \/ /\ ForeignKeyHolds(sync_users, req[p].clientId)
        /\ ~ReferencedRowBusy(p, req[p].clientId)
        /\ sync_logs' = Append(sync_logs,
                               LogRow(req[p].clientId, 0, "FAILED", err[p].message, reqNo[p]))
        /\ logErr' = logErr
        /\ nFaults' = nFaults
     \/ /\ ~ForeignKeyHolds(sync_users, req[p].clientId)
        /\ sync_logs' = sync_logs
        /\ logErr' = [logErr EXCEPT ![p] = [message |-> ForeignKey, stmt |-> "faillog"]]
        /\ nFaults' = nFaults
     \/ /\ nFaults < MaxFaults
        /\ nFaults' = nFaults + 1
        /\ sync_logs' = sync_logs
        /\ logErr' = [logErr EXCEPT ![p] = [message |-> StorageFault, stmt |-> "faillog"]]
  /\ resp' = [resp EXCEPT ![p] = Sent(p, FailureResponse(err[p].message))]
  /\ pc' = [pc EXCEPT ![p] = "done"]
  /\ UNCHANGED << sync_users, acc_users, acc_master, req, reqNo, tx, recordCount,
                  idx, err, nReq, lastSync >>
  /\ UNCHANGED pooling

\* The handler has answered and returns.
Return(p) ==
  /\ pc[p] = "done"
  /\ areq' = [areq EXCEPT ![p] = NoAdminReq]
  /\ gate' = [gate EXCEPT ![p] = NoGate]
  /\ UNCHANGED << nTokens, retired, sync_admin >>
  /\ pc' = [pc EXCEPT ![p] = "idle"]
  /\ req' = [req EXCEPT ![p] = NoReq]
  /\ reqNo' = [reqNo EXCEPT ![p] = 0]
  /\ recordCount' = [recordCount EXCEPT ![p] = 0]
  /\ idx' = [idx EXCEPT ![p] = 0]
  /\ err' = [err EXCEPT ![p] = NoError]
  /\ logErr' = [logErr EXCEPT ![p] = NoError]
  /\ resp' = [resp EXCEPT ![p] = NoResp]
  /\ UNCHANGED << sync_users, acc_users, acc_master, sync_logs, tx, nReq, nFaults, lastSync >>
  /\ UNCHANGED pooling

Next ==
  \E p \in Procs :
     \/ \E body \in Requests : Receive(p, body)
     \/ Authenticate(p)
     \/ DeleteMaster(p)
     \/ DeleteMasterResume(p)
     \/ DeleteUsers(p)
     \/ DeleteUsersResume(p)
     \/ InsertRow(p)
     \/ InsertLog(p)
     \/ Commit(p)
     \/ Fault(p)
     \/ LogFailure(p)
     \/ Return(p)

Spec == Init /\ [][Next]_vars

\* The same handler with one request at a time: a request is received only
\* when no other is in progress, so no statement ever waits for a lock.
NextSerial ==
  \E p \in Procs :
     \/ \E body \in Requests : Receive(p, body) /\ \A q \in Procs : pc[q] = "idle"
     \/ Authenticate(p)
     \/ DeleteMaster(p)
     \/ DeleteUsers(p)
     \/ InsertRow(p)
     \/ InsertLog(p)
     \/ Commit(p)
     \/ Fault(p)
     \/ LogFailure(p)
     \/ Return(p)

SpecSerial == Init /\ [][NextSerial]_vars

\* ------------------------------------------------ runs over more rows
\* Rows with keys in other spellings, and a credential row whose identifier
\* is the one client c2's stored credential row has.
WideRowPool ==
  { [Id |-> "1", Pass |-> "p1"],
    [id |-> "1", pass |-> "p1"],
    [ID |-> "2", PASS |-> "p9"],
    [CODE |-> "C1", NAME |-> "Acme"] }

RowsRunRequests ==
  { [clientId |-> "c1", accessToken |-> IssuedToken("c1"),
     data |-> ArrayOf(b)] : b \in SeqsUpTo(WideRowPool, MaxBatch) }

\* The handler of /sync/data, one request at a time, over these requests.
NextRows ==
  \E p \in Procs :
     \/ \E body \in RowsRunRequests : Receive(p, body) /\ \A q \in Procs : pc[q] = "idle"
     \/ Authenticate(p)
     \/ DeleteMaster(p)
     \/ DeleteUsers(p)
     \/ InsertRow(p)
     \/ InsertLog(p)
     \/ Commit(p)
     \/ Fault(p)
     \/ LogFailure(p)
     \/ Return(p)

SpecRows == Init /\ [][NextRows]_vars

\* ------------------------------------------- the transport's boundary
\* pcs at which the handler of /sync/data awaits a storage call
InFlight == TxPcs \cup {"failed"}

\* res.setTimeout(30000, ...): the response timeout fires while the handler
\* awaits storage and answers 503; the handler goes on.
Timeout(p) ==
  /\ pc[p] \in InFlight
  /\ resp[p] = NoResp
  /\ resp' = [resp EXCEPT ![p] = TimedOut]
  /\ UNCHANGED << sync_users, acc_users, acc_master, sync_logs, pc, req, reqNo, tx,
                  recordCount, idx, err, logErr, nReq, nFaults, lastSync, registry >>
  /\ UNCHANGED pooling

\* The client closes the connection while the handler awaits storage; the
\* handler listens for no close event and goes on.
Disconnect(p) ==
  /\ pc[p] \in InFlight
  /\ resp[p] = NoResp
  /\ resp' = [resp EXCEPT ![p] = Closed]
  /\ UNCHANGED << sync_users, acc_users, acc_master, sync_logs, pc, req, reqNo, tx,
                  recordCount, idx, err, logErr, nReq, nFaults, lastSync, registry >>
  /\ UNCHANGED pooling

\* the requests of the runs with timeouts and disconnects
TimeoutRunRequests ==
  { [clientId |-> "c1", accessToken |-> IssuedToken("c1"),
     data |-> ArrayOf(<< [ID |-> "1", PASS |-> "p1"] >>)],
    [clientId |-> "c2", accessToken |-> IssuedToken("c2"), data |-> ArrayOf(<< >>)],
    [clientId |-> "c9", accessToken |-> "t1",
     data |-> ArrayOf(<< [CODE |-> "C1", NAME |-> "Acme"] >>)] }

NextTimeout ==
  \E p \in Procs :
     \/ \E body \in TimeoutRunRequests : Receive(p, body)
     \/ Authenticate(p)
     \/ DeleteMaster(p)
     \/ DeleteMasterResume(p)
     \/ DeleteUsers(p)
     \/ DeleteUsersResume(p)
     \/ InsertRow(p)
     \/ InsertLog(p)
     \/ Commit(p)
     \/ Fault(p)
     \/ LogFailure(p)
     \/ Timeout(p)
     \/ Disconnect(p)
     \/ Return(p)

SpecTimeout == Init /\ [][NextTimeout]_vars

\* ------------------------------------- DELETE /delete-users/:clientId
NoUserFound == "No user found with client ID"
StillReferenced == "update or delete on table sync_users violates foreign key constraint on table sync_logs"

\* the admin handlers' answers: res.json(...) and res.status(n).json(...)
AdminOk(clientId, accessToken) ==
  [status |-> 200, success |-> TRUE, error |-> "", clientId |-> clientId,
   accessToken |-> accessToken]
AdminError(status, message) ==
  [status |-> status, success |-> FALSE, error |-> message, clientId |-> Undefined,
   accessToken |-> Undefined]

\* a cascade that empties the log
LogsWithoutAny(logs, del) == << >>

\* the committed entries of sync_logs, and sync_logs without some of them
LogRows(logs) == { logs[i] : i \in DOMAIN logs }
LogsWithout(logs, del) ==
  LET Kept(l) == l \notin del
  IN  SelectSeq(logs, Kept)

\* A request to delete a client arrives: the handler takes a connection and
\* begins a transaction.
ReceiveDelete(p, clientId) ==
  /\ pc[p] = "idle"
  /\ nReq < MaxRequests
  /\ nReq' = nReq + 1
  /\ reqNo' = [reqNo EXCEPT ![p] = nReq + 1]
  /\ areq' = [areq EXCEPT ![p] = [clientId |-> clientId]]
  /\ pc' = [pc EXCEPT ![p] = "dU"]
  /\ UNCHANGED << sync_users, acc_users, acc_master, sync_logs, req, tx, recordCount,
                  idx, err, logErr, resp, nFaults, lastSync, nTokens, retired, session >>
  /\ UNCHANGED pooling

\* the callback of an admin transaction threw e: ROLLBACK, release, rethrow
\* to the handler's catch
AdminAbort(p, e, catch) ==
  /\ acc_master' = AfterRollback(acc_master, tx[p].delM, tx[p].insM)
  /\ acc_users' = AfterRollback(acc_users, tx[p].delU, tx[p].insU)
  /\ sync_users' = AfterRollback(sync_users, tx[p].delS, tx[p].insS)
  /\ sync_logs' = sync_logs
  /\ tx' = [tx EXCEPT ![p] = EmptyTx]
  /\ err' = [err EXCEPT ![p] = e]
  /\ pc' = [pc EXCEPT ![p] = catch]
  /\ UNCHANGED << req, reqNo, recordCount, idx, logErr, resp, nReq, lastSync, areq, nTokens, retired, session >>

\* the four statements of the transaction, in the order of the code
DeletePcs == {"dU", "dM", "dL", "dS"}
DeleteWaitPcs == {"dUw", "dMw", "dLw", "dSw"}
StatementOf(at) ==
  CASE at \in {"dU", "dUw"} -> "acc_users"
    [] at \in {"dM", "dMw"} -> "acc_master"
    [] at \in {"dL", "dLw"} -> "sync_logs"
    [] at \in {"dS", "dSw"} -> "sync_users"

\* DELETE FROM <table> WHERE client_id = $1 : the committed rows it targets
DeleteTargets(table, clientId) ==
  CASE table = "acc_users"  -> PurgeTargets(acc_users, clientId)
    [] table = "acc_master" -> PurgeTargets(acc_master, clientId)
    [] table = "sync_logs"  -> PurgeTargets(LogRows(sync_logs), clientId)
    [] table = "sync_users" -> PurgeTargets(sync_users, clientId)

\* A target is locked while another open transaction holds an uncommitted
\* delete of it, or (a sync_users row) an uncommitted sync_logs entry that
\* references it.
TargetLocked(p, table, r) ==
  \E q \in Procs \ {p} :
     CASE table = "acc_users"  -> r \in tx[q].delU
       [] table = "acc_master" -> r \in tx[q].delM
       [] table = "sync_logs"  -> r \in tx[q].delL
       [] table = "sync_users" ->
            \/ \E d \in tx[q].delS : d.id = r.id
            \/ \E i \in DOMAIN tx[q].insL : tx[q].insL[i].client_id = r.client_id

\* the targets of a statement that still exist when it resumes; a sync_users
\* row updated meanwhile is the same row
StillThere(table, targets) ==
  CASE table = "acc_users"  -> targets \cap acc_users
    [] table = "acc_master" -> targets \cap acc_master
    [] table = "sync_logs"  -> targets \cap LogRows(sync_logs)
    [] table = "sync_users" -> { r \in sync_users : \E t \in targets : t.id = r.id }

\* sync_logs.client_id REFERENCES sync_users(client_id): deleting the client
\* record is refused while a sync_logs entry this transaction has not
\* deleted references it
Referenced(p, clientId) ==
  \E l \in LogRows(sync_logs) \ tx[p].delL : l.client_id = clientId

\* a handler that does not look at the last DELETE's row count
NotFoundNever(rowCount) == FALSE

\* if (result.rowCount === 0) throw new Error(`No user found ...`)
NotFound(rowCount) == rowCount = 0

\* The statement deletes rows; the last one's row count decides.
Deleted(p, table, rows) ==
  CASE table = "acc_users" ->
         /\ tx' = [tx EXCEPT ![p].delU = rows, ![p].tgt = {}]
         /\ pc' = [pc EXCEPT ![p] = "dM"]
         /\ UNCHANGED << sync_users, acc_users, acc_master, sync_logs, req, reqNo,
                         recordCount, idx, err, logErr, resp, nReq, lastSync, areq, nTokens, retired, session >>
    [] table = "acc_master" ->
         /\ tx' = [tx EXCEPT ![p].delM = rows, ![p].tgt = {}]
         /\ pc' = [pc EXCEPT ![p] = "dL"]
         /\ UNCHANGED << sync_users, acc_users, acc_master, sync_logs, req, reqNo,
                         recordCount, idx, err, logErr, resp, nReq, lastSync, areq, nTokens, retired, session >>
    [] table = "sync_logs" ->
         /\ tx' = [tx EXCEPT ![p].delL = rows, ![p].tgt = {}]
         /\ pc' = [pc EXCEPT ![p] = "dS"]
         /\ UNCHANGED << sync_users, acc_users, acc_master, sync_logs, req, reqNo,
                         recordCount, idx, err, logErr, resp, nReq, lastSync, areq, nTokens, retired, session >>
    [] table = "sync_users" ->
         IF rows # {} /\ Referenced(p, areq[p].clientId)
         THEN AdminAbort(p, [message |-> StillReferenced, stmt |-> "dS"], "dfailed")
         ELSE IF NotFound(Cardinality(rows))
         THEN AdminAbort(p, [message |-> NoUserFound, stmt |-> "dS"], "dfailed")
         ELSE /\ tx' = [tx EXCEPT ![p].delS = rows, ![p].tgt = {}]
              /\ pc' = [pc EXCEPT ![p] = "dcommit"]
              /\ UNCHANGED << sync_users, acc_users, acc_master, sync_logs, req, reqNo,
                              recordCount, idx, err, logErr, resp, nReq, lastSync, areq,
                              nTokens, retired, session >>

\* One DELETE of the transaction.  It targets the rows committed when it
\* starts and waits when one of them is locked.
DeleteStatement(p) ==
  /\ pc[p] \in DeletePcs
  /\ nFaults' = nFaults
  /\ LET table == StatementOf(pc[p])
         targets == DeleteTargets(table, areq[p].clientId)
     IN  IF \E r \in targets : TargetLocked(p, table, r)
         THEN /\ tx' = [tx EXCEPT ![p].tgt = targets]
              /\ pc' = [pc EXCEPT ![p] = ("dU" :> "dUw" @@ "dM" :> "dMw" @@ "dL" :> "dLw"
                                          @@ "dS" :> "dSw")[pc[p]]]
              /\ UNCHANGED << sync_users, acc_users, acc_master, sync_logs, req, reqNo,
                              recordCount, idx, err, logErr, resp, nReq, lastSync, areq,
                              nTokens, retired, session >>
         ELSE Deleted(p, table, targets)
  /\ UNCHANGED pooling

\* The waiting DELETE resumes once the locks are gone: it deletes those of its
\* targets that still exist and sees no row committed since it started.
DeleteStatementResume(p) ==
  /\ pc[p] \in DeleteWaitPcs
  /\ nFaults' = nFaults
  /\ LET table == StatementOf(pc[p])
         rows == StillThere(table, tx[p].tgt)
     IN  /\ \A r \in rows : ~TargetLocked(p, table, r)
         /\ Deleted(p, table, rows)
  /\ UNCHANGED pooling

\* COMMIT, then res.json(res.locals.responseData)
DeleteCommit(p) ==
  /\ pc[p] = "dcommit"
  /\ acc_users' = AfterCommit(acc_users, tx[p].delU, tx[p].insU)
  /\ acc_master' = AfterCommit(acc_master, tx[p].delM, tx[p].insM)
  /\ sync_logs' = LogsWithout(sync_logs, tx[p].delL)
  /\ sync_users' = AfterCommit(sync_users, tx[p].delS, tx[p].insS)
  /\ tx' = [tx EXCEPT ![p] = EmptyTx]
  /\ resp' = [resp EXCEPT ![p] = AdminOk(areq[p].clientId, Undefined)]
  /\ pc' = [pc EXCEPT ![p] = "done"]
  /\ UNCHANGED << req, reqNo, recordCount, idx, err, logErr, nReq, nFaults, lastSync,
                  areq, nTokens, retired, session >>
  /\ UNCHANGED pooling

\* A storage call of the delete transaction fails for a reason of the
\* storage's own.
DeleteFault(p) ==
  /\ pc[p] \in DeletePcs \cup DeleteWaitPcs \cup {"dcommit"}
  /\ nFaults < MaxFaults
  /\ nFaults' = nFaults + 1
  /\ AdminAbort(p, [message |-> StorageFault, stmt |-> pc[p]], "dfailed")
  /\ UNCHANGED pooling

\* The handler's catch: 404 when the message includes "No user found", 500
\* otherwise, with the error's message.
DeleteCatch(p) ==
  /\ pc[p] = "dfailed"
  /\ resp' = [resp EXCEPT ![p] =
                AdminError(IF err[p].message = NoUserFound THEN 404 ELSE 500, err[p].message)]
  /\ pc' = [pc EXCEPT ![p] = "done"]
  /\ UNCHANGED << sync_users, acc_users, acc_master, sync_logs, req, reqNo, tx,
                  recordCount, idx, err, logErr, nReq, nFaults, lastSync, areq, nTokens, retired, session >>
  /\ UNCHANGED pooling

\* ------------------------------------------- GET /users/:clientId/config
ReceiveConfig(p, clientId) ==
  /\ pc[p] = "idle"
  /\ nReq < MaxRequests
  /\ nReq' = nReq + 1
  /\ reqNo' = [reqNo EXCEPT ![p] = nReq + 1]
  /\ areq' = [areq EXCEPT ![p] = [clientId |-> clientId]]
  /\ pc' = [pc EXCEPT ![p] = "cfg"]
  /\ UNCHANGED << sync_users, acc_users, acc_master, sync_logs, req, tx, recordCount,
                  idx, err, logErr, resp, nFaults, lastSync, nTokens, retired, session >>
  /\ UNCHANGED pooling

\* SELECT client_id, db_name, access_token FROM sync_users WHERE client_id = $1
\* and the answer: 404 when no row, the config with the access token
\* otherwise, 500 when the query fails
GetConfig(p) ==
  /\ pc[p] = "cfg"
  /\ LET rows == { r \in sync_users : r.client_id = areq[p].clientId }
     IN  \/ /\ Cardinality(rows) = 0
            /\ resp' = [resp EXCEPT ![p] = AdminError(404, NoUserFound)]
            /\ nFaults' = nFaults
         \/ /\ Cardinality(rows) # 0
            /\ \E user \in rows :
                  resp' = [resp EXCEPT ![p] = AdminOk(user.client_id, user.access_token)]
            /\ nFaults' = nFaults
         \/ /\ nFaults < MaxFaults
            /\ nFaults' = nFaults + 1
            /\ resp' = [resp EXCEPT ![p] = AdminError(500, StorageFault)]
  /\ pc' = [pc EXCEPT ![p] = "done"]
  /\ UNCHANGED << sync_users, acc_users, acc_master, sync_logs, req, reqNo, tx,
                  recordCount, idx, err, logErr, nReq, lastSync, areq, nTokens, retired, session >>
  /\ UNCHANGED pooling

\* -------------------------------------------- PUT /update-users/:clientId
\* The tokens generateSecureToken() returns, in the order of its calls.
TokenSupply == << "t3", "t4", "t5", "t6" >>

\* a generator that hands out the token the first client was issued
GenerateSameToken(n) == "t1"

\* generateSecureToken(): crypto.randomBytes(32).toString("hex").  The n-th
\* token generated; 256 random bits are taken never to repeat.
GenerateSecureToken(n) == TokenSupply[n]


\* the fields of the body that updating and creating a client require
RequiredFields ==
  {"dbName", "dbUser", "dbPassword", "clientName", "address", "phoneNumber",
   "username", "password"}
CompleteBody == [f \in RequiredFields |-> "x"]
ClientBodies ==
  {CompleteBody} \cup
  { [CompleteBody EXCEPT ![f] = v] : f \in RequiredFields, v \in {"", Undefined} }

\* a validation that lets every body through
ValidClientBodyAlways(body) == TRUE

\* if (!dbName || !dbUser || ... || !password) return 400
ValidClientBody(body) == \A f \in RequiredFields : ~Falsy(body[f])

\* A request to update a client arrives: the handler validates the body,
\* answers 400 or generates the new access token.
ReceiveUpdate(p, clientId, body) ==
  /\ pc[p] = "idle"
  /\ nReq < MaxRequests
  /\ nReq' = nReq + 1
  /\ reqNo' = [reqNo EXCEPT ![p] = nReq + 1]
  /\ IF ValidClientBody(body)
     THEN /\ areq' = [areq EXCEPT ![p] = [clientId |-> clientId, body |-> body,
                                          accessToken |-> GenerateSecureToken(nTokens + 1)]]
          /\ nTokens' = nTokens + 1
          /\ pc' = [pc EXCEPT ![p] = "upd"]
          /\ resp' = resp
     ELSE /\ areq' = [areq EXCEPT ![p] = [clientId |-> clientId, body |-> body,
                                          accessToken |-> Undefined]]
          /\ nTokens' = nTokens
          /\ pc' = [pc EXCEPT ![p] = "done"]
          /\ resp' = [resp EXCEPT ![p] =
                        AdminError(400, "All fields are required for updating the user.")]
  /\ UNCHANGED << sync_users, acc_users, acc_master, sync_logs, tx, err, nFaults,
                  retired, session, syncOnly >>
  /\ UNCHANGED pooling

\* an UPDATE or DELETE of a sync_users row waits while another open
\* transaction holds an uncommitted delete of it
ClientRowHeld(p, clientId) ==
  \E q \in Procs \ {p} : \E r \in tx[q].delS : r.client_id = clientId

\* UPDATE sync_users SET ..., access_token = $5, ... WHERE client_id = $1,
\* and the answer: 404 when no row was updated, the new access token
\* otherwise, 500 when the query fails
UpdateUser(p) ==
  /\ pc[p] = "upd"
  /\ LET rows == { r \in sync_users : r.client_id = areq[p].clientId }
     IN  \/ /\ ~ClientRowHeld(p, areq[p].clientId)
            /\ Cardinality(rows) = 0
            /\ resp' = [resp EXCEPT ![p] = AdminError(404, NoUserFound)]
            /\ UNCHANGED << sync_users, retired, nFaults >>
         \/ /\ ~ClientRowHeld(p, areq[p].clientId)
            /\ Cardinality(rows) # 0
            /\ sync_users' = (sync_users \ rows) \cup
                               { [r EXCEPT !.access_token = areq[p].accessToken] : r \in rows }
            /\ retired' = retired \cup
                            { [client_id |-> r.client_id, access_token |-> r.access_token] :
                                r \in rows }
            /\ resp' = [resp EXCEPT ![p] = AdminOk(areq[p].clientId, areq[p].accessToken)]
            /\ nFaults' = nFaults
         \/ /\ nFaults < MaxFaults
            /\ nFaults' = nFaults + 1
            /\ resp' = [resp EXCEPT ![p] = AdminError(500, StorageFault)]
            /\ UNCHANGED << sync_users, retired >>
  /\ pc' = [pc EXCEPT ![p] = "done"]
  /\ UNCHANGED << acc_users, acc_master, sync_logs, reqNo, tx, err, nReq, areq, nTokens,
                  session, syncOnly >>
  /\ UNCHANGED pooling

\* ------------------------------------------------------- POST /add-users
\* generateClientId(): a random 10-digit identifier.  The identifiers the
\* generator may return here: one a stored client has, one no client has.
GeneratedIds == {"c2", "c3"}

Collision == "Client ID collision - please try again"
DuplicateClientId == "duplicate key value violates unique constraint sync_users_client_id_key"

\* A request to create a client arrives: the handler validates the body,
\* answers 400 or generates the client identifier and begins a transaction.
ReceiveCreate(p, body, clientId) ==
  /\ pc[p] = "idle"
  /\ nReq < MaxRequests
  /\ nReq' = nReq + 1
  /\ reqNo' = [reqNo EXCEPT ![p] = nReq + 1]
  /\ IF ValidClientBody(body)
     THEN /\ areq' = [areq EXCEPT ![p] = [clientId |-> clientId, body |-> body,
                                          accessToken |-> Undefined]]
          /\ pc' = [pc EXCEPT ![p] = "cchk"]
          /\ resp' = resp
     ELSE /\ areq' = [areq EXCEPT ![p] = [clientId |-> Undefined, body |-> body,
                                          accessToken |-> Undefined]]
          /\ pc' = [pc EXCEPT ![p] = "done"]
          /\ resp' = [resp EXCEPT ![p] =
                        AdminError(400, "Database name, user, and password are required")]
  /\ UNCHANGED << sync_users, acc_users, acc_master, sync_logs, tx, err, nFaults,
                  nTokens, retired, session, syncOnly >>
  /\ UNCHANGED pooling

\* SELECT client_id FROM sync_users WHERE client_id = $1
CollisionSelect(users, clientId) == { r \in users : r.client_id = clientId }

\* Check if generated client ID already exists: throw the collision error,
\* or generate the access token.
CreateCheck(p) ==
  /\ pc[p] = "cchk"
  /\ IF Cardinality(CollisionSelect(sync_users, areq[p].clientId)) > 0
     THEN /\ AdminAbort(p, [message |-> Collision, stmt |-> "cchk"], "cfailed")
          /\ nFaults' = nFaults
     ELSE /\ areq' = [areq EXCEPT ![p].accessToken = GenerateSecureToken(nTokens + 1)]
          /\ nTokens' = nTokens + 1
          /\ pc' = [pc EXCEPT ![p] = "cins"]
          /\ UNCHANGED << sync_users, acc_users, acc_master, sync_logs, reqNo, tx, err,
                          resp, nReq, nFaults, retired, session, syncOnly >>
  /\ UNCHANGED pooling

\* a sync_users table without the UNIQUE constraint on client_id
ClientIdNeverTaken(users, clientId) == FALSE

\* client_id VARCHAR(50) UNIQUE NOT NULL: a committed row has the identifier
ClientIdTaken(users, clientId) == \E r \in users : r.client_id = clientId

\* The INSERT waits while another open transaction holds an uncommitted
\* insert of the identifier or an uncommitted delete of the row that has it.
ClientIdHeld(p, clientId) ==
  \E q \in Procs \ {p} :
     \/ \E r \in tx[q].insS : r.client_id = clientId
     \/ \E r \in tx[q].delS : r.client_id = clientId

\* Insert new user
CreateInsert(p) ==
  /\ pc[p] = "cins"
  /\ nFaults' = nFaults
  /\ IF ClientIdTaken(sync_users, areq[p].clientId)
     THEN /\ ~ClientIdHeld(p, areq[p].clientId)
          /\ AdminAbort(p, [message |-> DuplicateClientId, stmt |-> "cins"], "cfailed")
     ELSE /\ ~ClientIdHeld(p, areq[p].clientId)
          /\ tx' = [tx EXCEPT ![p].insS =
                      { [id |-> Cardinality(InitialUsers) + reqNo[p],
                         client_id |-> areq[p].clientId,
                         access_token |-> areq[p].accessToken] }]
          /\ pc' = [pc EXCEPT ![p] = "ccommit"]
          /\ UNCHANGED << sync_users, acc_users, acc_master, sync_logs, reqNo, err, resp,
                          nReq, areq, nTokens, retired, session, syncOnly >>
  /\ UNCHANGED pooling

\* COMMIT, then res.json(res.locals.responseData)
CreateCommit(p) ==
  /\ pc[p] = "ccommit"
  /\ sync_users' = AfterCommit(sync_users, tx[p].delS, tx[p].insS)
  /\ tx' = [tx EXCEPT ![p] = EmptyTx]
  /\ resp' = [resp EXCEPT ![p] = AdminOk(areq[p].clientId, areq[p].accessToken)]
  /\ pc' = [pc EXCEPT ![p] = "done"]
  /\ UNCHANGED << acc_users, acc_master, sync_logs, reqNo, err, nReq, nFaults, areq,
                  nTokens, retired, session, syncOnly >>
  /\ UNCHANGED pooling

\* A storage call of the create transaction fails for a reason of the
\* storage's own.
CreateFault(p) ==
  /\ pc[p] \in {"cchk", "cins", "ccommit"}
  /\ nFaults < MaxFaults
  /\ nFaults' = nFaults + 1
  /\ AdminAbort(p, [message |-> StorageFault, stmt |-> pc[p]], "cfailed")
  /\ UNCHANGED pooling

\* The handler's catch: 409 for the collision error, 500 otherwise, with the
\* error's message.
CreateCatch(p) ==
  /\ pc[p] = "cfailed"
  /\ resp' = [resp EXCEPT ![p] =
                AdminError(IF err[p].message = Collision THEN 409 ELSE 500, err[p].message)]
  /\ pc' = [pc EXCEPT ![p] = "done"]
  /\ UNCHANGED << sync_users, acc_users, acc_master, sync_logs, reqNo, tx, err, nReq,
                  nFaults, areq, nTokens, retired, session, syncOnly >>
  /\ UNCHANGED pooling

\* --------------------------------------------------------- POST /sync/log
\* A record count in a JSON body: a number, or absent.
Count(n) == [given |-> TRUE, n |-> n]
NoCount == [given |-> FALSE, n |-> 0]

\* recordCount || 0
CountOrZero(c) == IF c.given /\ c.n # 0 THEN c.n ELSE 0

\* sync_logs.status is VARCHAR(20) NOT NULL: the lengths of the texts sent
StatusLength ==
  [st \in {"SUCCESS", "PARTIAL", "FAILED", "DONE", "A-STATUS-OF-TWENTY-SIX-CHARS"} |->
     CASE st \in {"SUCCESS", "PARTIAL"} -> 7
       [] st = "FAILED" -> 6
       [] st = "DONE" -> 4
       [] OTHER -> 26]
StatusColumnWidth == 20
TooLong == "value too long for type character varying(20)"

\* the bodies sent to /sync/log
LogRequests ==
  { [clientId |-> "c1", accessToken |-> IssuedToken("c1"), status |-> st,
     recordCount |-> Count(3), message |-> "reported"] :
       st \in {"PARTIAL", "DONE", "A-STATUS-OF-TWENTY-SIX-CHARS", ""} }
  \cup
  { [clientId |-> "c1", accessToken |-> IssuedToken("c1"), status |-> "FAILED",
     recordCount |-> NoCount, message |-> Undefined],
    [clientId |-> "c1", accessToken |-> IssuedToken("c2"), status |-> "SUCCESS",
     recordCount |-> Count(3), message |-> "reported"],
    [clientId |-> "c9", accessToken |-> IssuedToken("c1"), status |-> "SUCCESS",
     recordCount |-> Count(0), message |-> ""],
    [clientId |-> Undefined, accessToken |-> IssuedToken("c1"), status |-> "SUCCESS",
     recordCount |-> Count(3), message |-> "reported"] }

\* if (!clientId || !accessToken || !status) return 400
ValidLogInput(body) ==
  ~Falsy(body.clientId) /\ ~Falsy(body.accessToken) /\ ~Falsy(body.status)

\* the entry a handler that ignores the status given would insert
LogEntryAsSuccess(body, xid) ==
  LogRow(body.clientId, CountOrZero(body.recordCount), "SUCCESS",
         JsOr(body.message, ""), xid)

\* [clientId, recordCount || 0, status, message || ""]
LogEntry(body, xid) ==
  LogRow(body.clientId, CountOrZero(body.recordCount), body.status,
         JsOr(body.message, ""), xid)

\* res.json({ success: true })
LoggedResponse == [status |-> 200, success |-> TRUE, recordCount |-> 0, error |-> ""]

\* A report arrives: the handler validates the body and answers 400 or goes
\* on to verify the client.
ReceiveLog(p, body) ==
  /\ pc[p] = "idle"
  /\ nReq < MaxRequests
  /\ nReq' = nReq + 1
  /\ reqNo' = [reqNo EXCEPT ![p] = nReq + 1]
  /\ areq' = [areq EXCEPT ![p] = body]
  /\ IF ValidLogInput(body)
     THEN pc' = [pc EXCEPT ![p] = "lauth"] /\ resp' = resp
     ELSE /\ pc' = [pc EXCEPT ![p] = "done"]
          /\ resp' = [resp EXCEPT ![p] = BadRequest]
  /\ UNCHANGED << sync_users, acc_users, acc_master, sync_logs, tx, err, nFaults,
                  nTokens, retired, session, syncOnly >>
  /\ UNCHANGED pooling

\* Verify client exists and token is valid
LogAuthenticate(p) ==
  /\ pc[p] = "lauth"
  /\ LET found == AuthSelect(sync_users, areq[p].clientId, areq[p].accessToken)
     IN  \/ /\ Unauthorized(Cardinality(found))
            /\ pc' = [pc EXCEPT ![p] = "done"]
            /\ resp' = [resp EXCEPT ![p] = FailureResponse(UNAUTHORIZED)]
            /\ nFaults' = nFaults
         \/ /\ ~Unauthorized(Cardinality(found))
            /\ pc' = [pc EXCEPT ![p] = "lins"]
            /\ resp' = resp
            /\ nFaults' = nFaults
         \/ /\ nFaults < MaxFaults
            /\ nFaults' = nFaults + 1
            /\ pc' = [pc EXCEPT ![p] = "done"]
            /\ resp' = [resp EXCEPT ![p] = FailureResponse(StorageFault)]
  /\ UNCHANGED << sync_users, acc_users, acc_master, sync_logs, reqNo, tx, err, nReq,
                  areq, nTokens, retired, session, syncOnly >>
  /\ UNCHANGED pooling

\* Log sync operation: the INSERT INTO sync_logs and the answer, 500 when
\* the storage refuses the row or the query fails
LogInsert(p) ==
  /\ pc[p] = "lins"
  /\ \/ /\ StatusLength[areq[p].status] > StatusColumnWidth
        /\ sync_logs' = sync_logs
        /\ resp' = [resp EXCEPT ![p] = FailureResponse(TooLong)]
        /\ nFaults' = nFaults
     \/ /\ StatusLength[areq[p].status] <= StatusColumnWidth
        /\ ~ReferencedRowBusy(p, areq[p].clientId)
        /\ IF ForeignKeyHolds(sync_users, areq[p].clientId)
           THEN /\ sync_logs' = Append(sync_logs, LogEntry(areq[p], reqNo[p]))
                /\ resp' = [resp EXCEPT ![p] = LoggedResponse]
           ELSE /\ sync_logs' = sync_logs
                /\ resp' = [resp EXCEPT ![p] = FailureResponse(ForeignKey)]
        /\ nFaults' = nFaults
     \/ /\ nFaults < MaxFaults
        /\ nFaults' = nFaults + 1
        /\ sync_logs' = sync_logs
        /\ resp' = [resp EXCEPT ![p] = FailureResponse(StorageFault)]
  /\ pc' = [pc EXCEPT ![p] = "done"]
  /\ UNCHANGED << sync_users, acc_users, acc_master, reqNo, tx, err, nReq, areq, nTokens,
                  retired, session, syncOnly >>
  /\ UNCHANGED pooling

\* ------------------------------------------------- the whole application
\* The client identifiers admin requests name, and the sync requests taken
\* together with admin requests.
\* ------------------------------------------------------ requireSuperAdmin
\* the admins a cookie may name: one with a row in sync_admin, one without
CookieAdmins == Admins \cup {"a2"}

\* req.cookies["superadmin_token"]: absent, or a token that names an admin,
\* is or is not signed with JWT_SECRET, and has or has not expired by now
Cookies ==
  {NoToken} \cup
  { SessionToken(a, sg, ex, n) :
      a \in CookieAdmins, sg \in BOOLEAN, ex \in BOOLEAN, n \in 1..MaxLogins }

\* what data the handlers of the registry and of the syncs own
storage == << sync_users, acc_users, acc_master, sync_logs, tx, err, areq, nTokens,
              retired, syncOnly >>

GateError(message) == [status |-> 401, error |-> message]

\* jwt.verify(token, JWT_SECRET) returns the payload
Verifies(token) == token.signed /\ ~token.expired

\* SELECT access_token FROM sync_admin WHERE id = $1
AdminRows(adminId) == IF adminId \in DOMAIN sync_admin THEN {sync_admin[adminId]} ELSE {}

\* a comparison that takes every token for the stored one
SessionMatchesAlways(stored, token) == TRUE

\* result.rows[0].access_token === token: the same string, that is the same
\* admin, signature and issue
SessionMatches(stored, token) ==
  /\ stored.adminId = token.adminId
  /\ stored.signed = token.signed
  /\ stored.n = token.n

\* A request arrives at the gate: no cookie, a cookie that does not verify,
\* or the lookup of the stored token begins.
GateReceive(p, cookie) ==
  /\ pc[p] = "idle"
  /\ nReq < MaxRequests
  /\ nReq' = nReq + 1
  /\ reqNo' = [reqNo EXCEPT ![p] = nReq + 1]
  /\ IF cookie = NoToken
     THEN /\ resp' = [resp EXCEPT ![p] = GateError("Not authenticated")]
          /\ pc' = [pc EXCEPT ![p] = "done"]
          /\ gate' = gate
     ELSE IF ~Verifies(cookie)
     THEN /\ resp' = [resp EXCEPT ![p] = GateError("Invalid or expired token")]
          /\ pc' = [pc EXCEPT ![p] = "done"]
          /\ gate' = [gate EXCEPT ![p].cookie = cookie]
     ELSE /\ resp' = resp
          /\ pc' = [pc EXCEPT ![p] = "gq"]
          /\ gate' = [gate EXCEPT ![p].cookie = cookie]
  /\ UNCHANGED << storage, sync_admin, nFaults >>
  /\ UNCHANGED pooling

\* ensure it matches the one in the DB; then attach the admin and call next()
GateLookup(p) ==
  /\ pc[p] = "gq"
  /\ LET rows == AdminRows(gate[p].cookie.adminId)
     IN  IF Cardinality(rows) = 0
            \/ \E r \in rows : ~SessionMatches(r, gate[p].cookie)
         THEN /\ resp' = [resp EXCEPT ![p] = GateError("Session invalidated")]
              /\ pc' = [pc EXCEPT ![p] = "done"]
              /\ gate' = gate
         ELSE /\ gate' = [gate EXCEPT ![p].adminId = gate[p].cookie.adminId]
              /\ pc' = [pc EXCEPT ![p] = "next"]
              /\ resp' = resp
  /\ UNCHANGED << storage, sync_admin, reqNo, nReq, nFaults >>
  /\ UNCHANGED pooling

\* the status a request gets whose middleware rejected: the error handler's
\* 500, or the 503 of the request timeout when nothing handles the rejection
RejectedStatus == {500, 503}

\* The lookup fails for a reason of the storage's own: the middleware's
\* promise rejects, the gate sends nothing and next() is not called.
GateFault(p, status) ==
  /\ pc[p] = "gq"
  /\ nFaults < MaxFaults
  /\ nFaults' = nFaults + 1
  /\ resp' = [resp EXCEPT ![p] = [status |-> status, error |-> StorageFault]]
  /\ pc' = [pc EXCEPT ![p] = "done"]
  /\ UNCHANGED << storage, session, reqNo, nReq >>
  /\ UNCHANGED pooling

\* next(): the handler behind the gate runs for the admin attached to the
\* request and answers.
NextHandler(p) ==
  /\ pc[p] = "next"
  /\ resp' = [resp EXCEPT ![p] = [status |-> 200, adminId |-> gate[p].adminId]]
  /\ pc' = [pc EXCEPT ![p] = "done"]
  /\ UNCHANGED << storage, session, reqNo, nReq, nFaults >>
  /\ UNCHANGED pooling

\* POST /admin/login: issues a session token and stores it as the admin's
\* current one.
Login(a, n) ==
  /\ n # sync_admin[a].n
  /\ sync_admin' = [sync_admin EXCEPT ![a] = SessionToken(a, TRUE, FALSE, n)]
  /\ UNCHANGED << storage, gate, pc, reqNo, resp, nReq, nFaults >>
  /\ UNCHANGED pooling

\* POST /admin/logout: invalidates the stored session reference.
Logout(a) ==
  /\ sync_admin[a] # NoToken
  /\ sync_admin' = [sync_admin EXCEPT ![a] = NoToken]
  /\ UNCHANGED << storage, gate, pc, reqNo, resp, nReq, nFaults >>
  /\ UNCHANGED pooling

NextGate ==
  \/ \E p \in Procs :
        \/ \E cookie \in Cookies : GateReceive(p, cookie)
        \/ GateLookup(p)
        \/ \E status \in RejectedStatus : GateFault(p, status)
        \/ NextHandler(p)
        \/ Return(p)
  \/ \E a \in Admins :
        \/ \E n \in 1..MaxLogins : Login(a, n)
        \/ Logout(a)

SpecGate == Init /\ [][NextGate]_vars

AdminClientIds == {"c1", "c9"}
AdminRunRequests ==
  { [clientId |-> "c1", accessToken |-> IssuedToken("c1"),
     data |-> ArrayOf(<< [ID |-> "1", PASS |-> "p1"] >>)],
    [clientId |-> "c1", accessToken |-> GenerateSecureToken(1), data |-> ArrayOf(<<>>)],
    [clientId |-> "c9", accessToken |-> "t1",
     data |-> ArrayOf(<< [CODE |-> "C1", NAME |-> "Acme"] >>)] }

NextAdmin ==
  \E p \in Procs :
     \/ \E body \in AdminRunRequests : Receive(p, body)
     \/ Authenticate(p)
     \/ DeleteMaster(p)
     \/ DeleteMasterResume(p)
     \/ DeleteUsers(p)
     \/ DeleteUsersResume(p)
     \/ InsertRow(p)
     \/ InsertLog(p)
     \/ Commit(p)
     \/ Fault(p)
     \/ LogFailure(p)
     \/ Return(p)
     \/ \E c \in AdminClientIds : ReceiveDelete(p, c)
     \/ DeleteStatement(p)
     \/ DeleteStatementResume(p)
     \/ DeleteCommit(p)
     \/ DeleteFault(p)
     \/ DeleteCatch(p)
     \/ \E c \in AdminClientIds : ReceiveConfig(p, c)
     \/ GetConfig(p)
     \/ \E c \in AdminClientIds, body \in ClientBodies : ReceiveUpdate(p, c, body)
     \/ UpdateUser(p)
     \/ \E body \in ClientBodies, c \in GeneratedIds : ReceiveCreate(p, body, c)
     \/ CreateCheck(p)
     \/ CreateInsert(p)
     \/ CreateCommit(p)
     \/ CreateFault(p)
     \/ CreateCatch(p)
     \/ \E body \in LogRequests : ReceiveLog(p, body)
     \/ LogAuthenticate(p)
     \/ LogInsert(p)

SpecAdmin == Init /\ [][NextAdmin]_vars

\* ------------------------------------------------- what the claims speak of
\* process p takes a step
Moves(p) == pc'[p] # pc[p]

\* the step in which p's transaction commits and the handler answers
Commits(p) == pc[p] = "commit" /\ pc'[p] = "done"

\* the rows of a table a client owns
RowsOf(table, c) == { r \in table : r.client_id = c }

\* a client's credential rows, without the row version
UsersOf(table, c) == { [id |-> r.id, pass |-> r.pass] : r \in RowsOf(table, c) }

\* a client's master rows, without the serial key and the row version: each
\* distinct content with the number of rows that hold it
MasterContent(r) ==
  [code |-> r.code, name |-> r.name, address |-> r.address, place |-> r.place,
   super_code |-> r.super_code]
MasterOf(table, c) ==
  LET rows == RowsOf(table, c)
  IN  [x \in { MasterContent(r) : r \in rows } |->
         Cardinality({ r \in rows : MasterContent(r) = x })]

\* The classification rule as the specification words it: the first
\* non-empty value under one of the field's accepted keys, none when there
\* is no such value.
RECURSIVE FirstValue(_, _)
FirstValue(row, keys) ==
  IF keys = <<>> THEN JsNull
  ELSE IF Head(keys) \in DOMAIN row /\ row[Head(keys)] \notin {"", JsNull, Undefined}
       THEN row[Head(keys)]
       ELSE FirstValue(row, Tail(keys))
IsCredential(row) ==
  FirstValue(row, <<"ID", "id">>) # JsNull /\ FirstValue(row, <<"PASS", "pass">>) # JsNull
ExpectedUsers(rows) ==
  { [id |-> IntegerOf[FirstValue(rows[i], <<"ID", "id">>)],
     pass |-> FirstValue(rows[i], <<"PASS", "pass">>)] :
      i \in { j \in 1..Len(rows) : IsCredential(rows[j]) } }
ExpectedMasterRow(row) ==
  [code       |-> FirstValue(row, <<"CODE", "code">>),
   name       |-> FirstValue(row, <<"NAME", "name">>),
   address    |-> FirstValue(row, <<"ADDRESS", "address">>),
   place      |-> FirstValue(row, <<"PLACE", "place", "BRANCH", "branch">>),
   super_code |-> FirstValue(row, <<"SUPERCODE", "super_code", "SUPER_CODE">>)]
ExpectedMaster(rows) ==
  LET I == { j \in 1..Len(rows) : ~IsCredential(rows[j]) }
  IN  [x \in { ExpectedMasterRow(rows[i]) : i \in I } |->
         Cardinality({ i \in I : ExpectedMasterRow(rows[i]) = x })]

\* the request's pair matches no client record
NoMatch(body) ==
  ~\E r \in sync_users :
       r.client_id = body.clientId /\ r.access_token = body.accessToken

\* ----------------------------------------------------------------- claims
\* C1: after every sync call that returns success, the client's acc_users
\* and acc_master rows are exactly the rows derived from the batch by the
\* classification rule, and no row of an earlier sync survives.
C1_SuccessReplacesRows ==
  [][\A p \in Procs :
       Commits(p) =>
         /\ UsersOf(acc_users', req[p].clientId) = ExpectedUsers(req[p].data.rows)
         /\ MasterOf(acc_master', req[p].clientId) = ExpectedMaster(req[p].data.rows)]_vars

\* C2: whatever the interleaving of the syncs of one client, the client's
\* committed rows are those of one sync, the last to commit: never a mixture
\* or the union of two batches.
C2_LastCommitterWins ==
  \A c \in DOMAIN lastSync :
     \A r \in RowsOf(acc_users, c) \cup RowsOf(acc_master, c) :
        r.xmin = lastSync[c].req

\* C3: a sync whose (clientId, accessToken) pair matches no client record is
\* refused as UNAUTHORIZED when the lookup returns, answers 401, and none of
\* its steps deletes or inserts a row, in its transaction or in the tables.
C3_UnauthorizedNeverMutates ==
  [][\A p \in Procs :
       /\ (pc[p] = "auth" /\ Moves(p) /\ nFaults' = nFaults /\ NoMatch(req[p]))
            => (pc'[p] = "failed" /\ err'[p].message = UNAUTHORIZED)
       /\ (Moves(p) /\ err'[p].message = UNAUTHORIZED)
            => /\ acc_users' = acc_users /\ acc_master' = acc_master
               /\ tx[p] = EmptyTx /\ tx'[p] = EmptyTx
       /\ (pc[p] = "failed" /\ pc'[p] = "done" /\ err[p].message = UNAUTHORIZED)
            => resp'[p].status = 401]_vars

C3_Witness ==
  \E p \in Procs :
     /\ pc[p] = "done" /\ resp[p].status = 401 /\ NoMatch(req[p])
     /\ RowsOf(acc_users, req[p].clientId) # {}
     /\ RowsOf(acc_master, req[p].clientId) # {}

\* C4: a sync transaction that fails after it was opened is rolled back: the
\* step that fails it leaves acc_users and acc_master as they were and
\* discards its deletes and inserts, the tables change only in the step that
\* commits a sync and answers 200, and the failed call answers 500 (401 for
\* an authentication failure).
C4_FailureRollsBack ==
  [][/\ \A p \in Procs :
          /\ (pc[p] \in TxPcs /\ pc'[p] = "failed")
               => (acc_users' = acc_users /\ acc_master' = acc_master /\ tx'[p] = EmptyTx)
          /\ (pc[p] = "failed" /\ Moves(p))
               => /\ pc'[p] = "done"
                  /\ resp'[p] = IF err[p].message = UNAUTHORIZED
                                 THEN [status |-> 401, success |-> FALSE, recordCount |-> 0,
                                       error |-> "Invalid client ID or access token"]
                                 ELSE [status |-> 500, success |-> FALSE, recordCount |-> 0,
                                       error |-> "Server error"]
     /\ (acc_users' # acc_users \/ acc_master' # acc_master)
          => \E p \in Procs : Commits(p) /\ resp'[p].status = 200]_vars

\* a sync failed by a storage fault after its purge and its inserts, and the
\* rows it had purged are in the tables
C4_Witness ==
  \E p \in Procs :
     /\ pc[p] = "failed" /\ err[p].message = StorageFault
     /\ err[p].stmt \in {"log", "commit"}
     /\ Len(req[p].data.rows) > 0
     /\ RowsOf(acc_users, req[p].clientId) # {}
     /\ RowsOf(acc_master, req[p].clientId) # {}


\* C5: a row whose INSERT fails with a storage-level error does not abort
\* the sync: the error never puts the handler in its catch, and the call is
\* not answered with a failure because of it.
C5_RowErrorDoesNotAbort ==
  \A p \in Procs :
     err[p].message \in {InvalidInteger, DuplicateKey}
       => /\ pc[p] # "failed"
          /\ pc[p] = "done" => resp[p].status = 200

\* C6: a row with neither an identifier+credential pair nor a code is
\* skipped, so no stored acc_master row has an empty or null code.
C6_NoMasterRowWithoutCode ==
  \A r \in acc_master : r.code \notin {"", JsNull, Undefined}

\* C7: a successful sync that repeats the data of the client's last
\* committed sync leaves the client's acc_users and acc_master contents as
\* that sync left them, and none of its inserts fails on a duplicate key.
C7_ResyncIsIdempotent ==
  [][\A p \in Procs :
       /\ (Commits(p) /\ lastSync[req[p].clientId].data = req[p].data)
            => /\ UsersOf(acc_users', req[p].clientId) = UsersOf(acc_users, req[p].clientId)
               /\ MasterOf(acc_master', req[p].clientId) = MasterOf(acc_master, req[p].clientId)
       /\ (pc[p] = "ins" /\ Moves(p) /\ nFaults' = nFaults
             /\ lastSync[req[p].clientId].data = req[p].data)
            => pc'[p] # "failed"]_vars

\* the same batch, with rows for both tables, has been synced twice in a row
C7_Witness ==
  \E p \in Procs :
     /\ pc[p] = "done" /\ resp[p].status = 200
     /\ lastSync[req[p].clientId].req = reqNo[p]
     /\ lastSync[req[p].clientId].repeat
     /\ RowsOf(acc_users, req[p].clientId) # {}
     /\ RowsOf(acc_master, req[p].clientId) # {}

\* a body with a missing or empty clientId, a missing or empty accessToken,
\* or a data field that is not an array
Malformed(body) ==
  \/ body.clientId \in {"", Undefined}
  \/ body.accessToken \in {"", Undefined}
  \/ ~body.data.isArray

\* C8: a malformed request is answered 400 in the step that receives it: no
\* transaction is opened, no table is modified, no sync_logs entry appended,
\* and the handler does nothing more.
C8_MalformedIsRejected ==
  [][\A p \in Procs :
       /\ (pc[p] = "idle" /\ Moves(p) /\ Malformed(req'[p]))
            => /\ pc'[p] = "done" /\ resp'[p].status = 400
               /\ tx'[p] = EmptyTx
               /\ UNCHANGED << sync_users, acc_users, acc_master, sync_logs >>
       /\ (pc[p] = "done" /\ resp[p].status = 400 /\ Moves(p))
            => /\ pc'[p] = "idle"
               /\ UNCHANGED << sync_users, acc_users, acc_master, sync_logs >>]_vars

C8_Witness ==
  \E p \in Procs :
     /\ pc[p] = "done" /\ resp[p].status = 400
     /\ ~req[p].data.isArray /\ req[p].clientId = "c1"

\* the sync_logs entries request xid wrote
LogsOf(logs, xid) ==
  LET Mine(l) == l.xmin = xid
  IN  SelectSeq(logs, Mine)

C10_AuditWriteAfterCommit ==
  \A p \in Procs :
     /\ tx[p].insL = <<>>
     /\ err[p].stmt = "log"
          => /\ pc[p] = "done" /\ resp[p].status = 200
             /\ lastSync[req[p].clientId].req = reqNo[p]


\* C11: in every reachable state, whatever the interleaving of the deletion
\* of a client with the sync and log calls for it, every committed acc_users
\* row, acc_master row and sync_logs entry is owned by a client record that
\* exists.
C11_NoOrphanRows ==
  /\ \A r \in acc_users : r.client_id \in ClientIds(sync_users)
  /\ \A r \in acc_master : r.client_id \in ClientIds(sync_users)
  /\ \A i \in DOMAIN sync_logs : sync_logs[i].client_id \in ClientIds(sync_users)


\* the step in which p's delete transaction commits and the handler answers
DeleteCommits(p) == pc[p] = "dcommit" /\ pc'[p] = "done"

\* no row of any of the four tables is owned by client c
NothingOf(c, users, master, logs, clients) ==
  /\ RowsOf(users, c) = {}
  /\ RowsOf(master, c) = {}
  /\ \A i \in DOMAIN logs : logs[i].client_id # c
  /\ RowsOf(clients, c) = {}

\* C12: a deleteClient that succeeds has deleted the client's acc_users rows,
\* acc_master rows, sync_logs entries and client record, in that order, and
\* after it none of them remain and the client's config is not found; a
\* deleteClient that fails changes none of the four tables.
C12_DeleteRemovesEverything ==
  [][\A p \in Procs :
       /\ DeleteCommits(p)
            => /\ NothingOf(areq[p].clientId, acc_users', acc_master', sync_logs', sync_users')
               /\ resp'[p].status = 200
       /\ (pc[p] \in {"dU", "dUw"} /\ Moves(p) /\ pc'[p] # "dfailed")
            => pc'[p] \in {"dUw", "dM"}
       /\ (pc[p] \in {"dM", "dMw"} /\ Moves(p) /\ pc'[p] # "dfailed")
            => pc'[p] \in {"dMw", "dL"}
       /\ (pc[p] \in {"dL", "dLw"} /\ Moves(p) /\ pc'[p] # "dfailed")
            => pc'[p] \in {"dLw", "dS"}
       /\ (Moves(p) /\ pc'[p] = "dfailed")
            => UNCHANGED << acc_users, acc_master, sync_logs, sync_users >>
       /\ (pc[p] = "cfg" /\ Moves(p) /\ nFaults' = nFaults
             /\ RowsOf(sync_users, areq[p].clientId) = {})
            => resp'[p].status = 404]_vars

\* C13: a deleteClient for an identifier without a client record fails with
\* NotFound: its last DELETE finds no row, the transaction is rolled back
\* with every table as it was, whatever the earlier DELETEs had matched, and
\* the handler answers 404.
C13_DeleteOfUnknownClientIsNotFound ==
  [][\A p \in Procs :
       /\ (pc[p] \in {"dS", "dSw"} /\ Moves(p) /\ pc'[p] # pc[p] /\ nFaults' = nFaults
             /\ pc'[p] # "dSw" /\ RowsOf(sync_users, areq[p].clientId) = {})
            => /\ pc'[p] = "dfailed" /\ err'[p].message = NoUserFound
               /\ tx'[p] = EmptyTx
               /\ UNCHANGED << acc_users, acc_master, sync_logs, sync_users >>
       /\ (pc[p] = "dfailed" /\ Moves(p) /\ err[p].message = NoUserFound)
            => /\ pc'[p] = "done" /\ resp'[p].status = 404
               /\ UNCHANGED << acc_users, acc_master, sync_logs, sync_users >>
       /\ (Moves(p) /\ err'[p].message = NoUserFound /\ pc'[p] = "dfailed")
            => RowsOf(sync_users, areq[p].clientId) = {}]_vars

\* a deleteClient for an identifier that was never issued has answered 404
C13_Witness ==
  \E p \in Procs :
     /\ pc[p] = "done" /\ resp[p].status = 404 /\ err[p].message = NoUserFound
     /\ areq[p].clientId = "c9"


\* the (client, token) pair a sync or log request presents
Presented(body) == [client_id |-> body.clientId, access_token |-> body.accessToken]

\* C14: a successful updateClient stores a newly issued access token, the one
\* it returns, in place of the previous one; from then on a sync or log call
\* that presents a replaced token is rejected as Unauthorized, and the
\* returned token is the one that authenticates.
C14_UpdateRotatesToken ==
  [][\A p \in Procs :
       /\ (pc[p] = "upd" /\ Moves(p) /\ resp'[p].status = 200)
            => /\ RowsOf(sync_users', areq[p].clientId) # {}
               /\ \A r \in RowsOf(sync_users', areq[p].clientId) :
                     r.access_token = resp'[p].accessToken
               /\ \A r \in RowsOf(sync_users, areq[p].clientId) :
                     /\ r.access_token # resp'[p].accessToken
                     /\ [client_id |-> r.client_id, access_token |-> r.access_token]
                          \in retired'
               /\ [client_id |-> areq[p].clientId, access_token |-> resp'[p].accessToken]
                    \notin retired'
       /\ (pc[p] = "auth" /\ Moves(p) /\ nFaults' = nFaults /\ Presented(req[p]) \in retired)
            => (pc'[p] = "failed" /\ err'[p].message = UNAUTHORIZED)
       /\ (pc[p] = "lauth" /\ Moves(p) /\ nFaults' = nFaults /\ Presented(areq[p]) \in retired)
            => (pc'[p] = "done" /\ resp'[p].status = 401)]_vars

\* a sync presenting the token an update has replaced was rejected
C14_Witness ==
  \E p \in Procs :
     /\ pc[p] = "failed" /\ err[p].message = UNAUTHORIZED
     /\ Presented(req[p]) \in retired

\* C19: POST /sync/log decides on the (clientId, accessToken) pair as the
\* sync does; a pair that matches no client record is answered 401 and
\* nothing is appended; a report that is accepted appends exactly one entry
\* with the status, record count and message given (0 and the empty text
\* when absent) and changes no other table or entry; a report that is not
\* accepted changes nothing.
C19_LogAppendsOneEntry ==
  [][\A p \in Procs :
       /\ (pc[p] = "lauth" /\ Moves(p) /\ nFaults' = nFaults)
            => /\ IF NoMatch(areq[p])
                  THEN pc'[p] = "done" /\ resp'[p].status = 401
                  ELSE pc'[p] = "lins"
               /\ UNCHANGED << sync_users, acc_users, acc_master, sync_logs >>
       /\ (pc[p] = "lins" /\ Moves(p) /\ resp'[p].status = 200)
            => /\ sync_logs' = Append(sync_logs,
                     [client_id |-> areq[p].clientId,
                      records_synced |-> IF areq[p].recordCount.given
                                         THEN areq[p].recordCount.n ELSE 0,
                      status |-> areq[p].status,
                      message |-> IF areq[p].message = Undefined THEN ""
                                  ELSE areq[p].message,
                      xmin |-> reqNo[p]])
               /\ UNCHANGED << sync_users, acc_users, acc_master >>
       /\ (pc[p] \in {"lauth", "lins"} /\ Moves(p) /\ resp'[p].status # 200)
            => UNCHANGED << sync_users, acc_users, acc_master, sync_logs >>]_vars

\* a report with status PARTIAL was accepted and its entry is the last one
C19_Witness ==
  \E p \in Procs :
     /\ pc[p] = "done" /\ resp[p].status = 200
     /\ "status" \in DOMAIN areq[p] /\ areq[p].status = "PARTIAL"
     /\ Len(sync_logs) > 0 /\ sync_logs[Len(sync_logs)].xmin = reqNo[p]

\* C20: in every reachable state the status of every stored sync_logs entry
\* is one of SUCCESS, PARTIAL and FAILED, whichever of /sync/data and
\* /sync/log wrote it.
C20_StatusInClosedSet ==
  \A i \in DOMAIN sync_logs : sync_logs[i].status \in {"SUCCESS", "PARTIAL", "FAILED"}


\* C17: a createClient that fails because the identifier it generated
\* belongs to a client record, stored before it or inserted by a concurrent
\* createClient, answers 409 and leaves sync_users as it is.
C17_CollisionIsConflict ==
  [][\A p \in Procs :
       (pc[p] = "cfailed" /\ Moves(p) /\ err[p].message \in {Collision, DuplicateClientId})
         => /\ resp'[p].status = 409
            /\ sync_users' = sync_users]_vars

\* C18: in every reachable state no two client records share a client
\* identifier.
C18_ClientIdsAreUnique ==
  \A r1, r2 \in sync_users : r1.client_id = r2.client_id => r1 = r2

\* two createClient calls generated the same identifier at the same time;
\* one has committed its record and the other was refused
C18_Witness ==
  \E p, q \in Procs :
     /\ pc[p] = "done" /\ resp[p].status = 200 /\ areq[p].clientId = "c3"
     /\ RowsOf(sync_users, "c3") # {}
     /\ pc[q] = "cfailed" /\ areq[q].clientId = "c3" /\ err[q].message = DuplicateClientId

\* the three conditions under which the gate lets a request through: the
\* cookie is present, verifies, and is the token stored for its admin
PassesGate(cookie, stored) ==
  /\ cookie # NoToken
  /\ cookie.signed /\ ~cookie.expired
  /\ cookie.adminId \in DOMAIN stored
  /\ stored[cookie.adminId].adminId = cookie.adminId
  /\ stored[cookie.adminId].signed = cookie.signed
  /\ stored[cookie.adminId].n = cookie.n

\* C15: the gate attaches the admin and calls next only for a cookie that is
\* present, verifies as a signed unexpired token and is the token stored for
\* its admin at the lookup; every other request the gate decides it answers
\* 401, and the handler behind it runs for none of them.
C15_GatePassesOnlyTheStoredSession ==
  [][\A p \in Procs :
       /\ (pc'[p] = "next" /\ Moves(p))
            => /\ pc[p] = "gq"
               /\ PassesGate(gate'[p].cookie, sync_admin)
               /\ gate'[p].adminId = gate'[p].cookie.adminId
       /\ (pc[p] \in {"idle", "gq"} /\ Moves(p) /\ pc'[p] # "gq" /\ nFaults' = nFaults
             /\ ~PassesGate(gate'[p].cookie, sync_admin))
            => /\ pc'[p] = "done" /\ resp'[p].status = 401
               /\ gate'[p].adminId = Undefined
       /\ (pc[p] \in {"idle", "gq"} /\ Moves(p) /\ pc'[p] # "next")
            => pc'[p] \in {"gq", "done"} /\ gate'[p].adminId = Undefined
       /\ (pc'[p] = "done" /\ Moves(p) /\ resp'[p].status = 200)
            => pc[p] = "next" /\ gate[p].adminId # Undefined]_vars

\* one request passed the gate with the stored token; another, with a signed
\* unexpired token that is no longer the stored one, was answered 401
C15_Witness ==
  \E p, q \in Procs :
     /\ pc[p] = "done" /\ resp[p].status = 200
     /\ pc[q] = "done" /\ resp[q].status = 401
     /\ resp[q].error = "Session invalidated"
     /\ gate[q].cookie.adminId \in Admins
     /\ Verifies(gate[q].cookie)

\* where a request is inside a handler of the Client Registry
RegistryPcs ==
  DeletePcs \cup DeleteWaitPcs \cup
  {"dcommit", "dfailed", "cfg", "upd", "cchk", "cins", "ccommit", "cfailed"}

\* C16: a request is in a handler of the Client Registry only after it has
\* passed session verification.
C16_RegistryBehindGate ==
  \A p \in Procs : pc[p] \in RegistryPcs => gate[p].adminId # Undefined

\* s is the beginning of t
IsPrefix(s, t) == Len(s) <= Len(t) /\ SubSeq(t, 1, Len(s)) = s

\* C21: sync_logs is append-only.  Every step leaves the entries there are
\* as and where they are and at most appends to them, but for the commit of
\* a deleteClient, which removes entries of the client it deletes and no
\* other.
C21_LogIsAppendOnly ==
  [][\/ IsPrefix(sync_logs, sync_logs')
     \/ \E p \in Procs :
          /\ DeleteCommits(p)
          /\ \E D \in SUBSET RowsOf(LogRows(sync_logs), areq[p].clientId) :
               LET Stays(l) == l \notin D
               IN  sync_logs' = SelectSeq(sync_logs, Stays)]_vars

\* a deleteClient for c1 has committed: c1's entries are gone and the
\* entry of c2 is where it was
C21_Witness ==
  \E p \in Procs :
     /\ pc[p] = "done" /\ resp[p] = AdminOk("c1", Undefined)
     /\ RowsOf(sync_users, "c1") = {}
     /\ RowsOf(LogRows(sync_logs), "c1") = {}
     /\ RowsOf(LogRows(sync_logs), "c2") # {}

\* the client a sync request names
ClientOf(p) == req[p].clientId

\* C22: a step of a sync call for one client leaves every other client's
\* acc_users rows, acc_master rows and sync_logs entries as they are.
C22_SyncTouchesOnlyItsClient ==
  [][\A p \in Procs :
       (pc[p] \in TxPcs \cup {"failed"} /\ Moves(p))
         => \A c \in ClientIds(sync_users) \ {ClientOf(p)} :
               /\ RowsOf(acc_users', c) = RowsOf(acc_users, c)
               /\ RowsOf(acc_master', c) = RowsOf(acc_master, c)
               /\ RowsOf(LogRows(sync_logs'), c) = RowsOf(LogRows(sync_logs), c)]_vars

\* a sync for c1 has committed rows of its own while a sync for c2 is in
\* its transaction, and c2's rows are those of c2's last committed sync
C22_Witness ==
  \E p, q \in Procs :
     /\ pc[p] = "done" /\ resp[p].status = 200 /\ req[p].clientId = "c1"
     /\ Len(req[p].data.rows) > 0
     /\ pc[q] \in {"ins", "log", "commit"} /\ req[q].clientId = "c2"
     /\ UsersOf(acc_users, "c2") = {[id |-> 2, pass |-> "p2"]}

\* a body of createClient or updateClient that lacks a required field
Incomplete(body) == \E f \in RequiredFields : body[f] \in {"", Undefined}

\* C25: a createClient or updateClient whose body lacks a required field, or
\* has it empty, is answered 400 at once: no transaction is opened, no client
\* record is inserted or altered and no access token is generated or retired.
C25_IncompleteBodyIsRejected ==
  [][\A p \in Procs :
       (pc[p] = "idle" /\ Moves(p) /\ "body" \in DOMAIN areq'[p] /\ Incomplete(areq'[p].body))
         => /\ pc'[p] = "done" /\ resp'[p].status = 400
            /\ tx'[p] = EmptyTx
            /\ UNCHANGED << sync_users, nTokens, retired >>]_vars

\* an updateClient for c1 and a createClient, each lacking a field, were
\* both answered 400 and the client records are those of the start
C25_Witness ==
  \E p, q \in Procs :
     /\ pc[p] = "done" /\ resp[p].status = 400 /\ "body" \in DOMAIN areq[p]
     /\ areq[p].clientId = "c1" /\ areq[p].body["dbName"] = ""
     /\ pc[q] = "done" /\ resp[q].status = 400 /\ "body" \in DOMAIN areq[q]
     /\ areq[q].clientId = Undefined /\ areq[q].body["password"] = Undefined
     /\ sync_users = InitialUsers /\ nTokens = 0

\* C27: a sync transaction commits only while the token it authenticated
\* with is the client's stored token: never after an updateClient that
\* replaced the token has committed.
C27_NoCommitWithRotatedToken ==
  [][\A p \in Procs :
       Commits(p) => /\ Presented(req[p]) \notin retired
                     /\ AuthSelect(sync_users, req[p].clientId, req[p].accessToken) # {}]_vars

\* the SUCCESS entries of sync_logs that the sync numbered xid wrote
SuccessOf(logs, xid) ==
  { i \in DOMAIN logs : logs[i].xmin = xid /\ logs[i].status = "SUCCESS" }

\* C26: the recordCount of a successful sync's response and of its SUCCESS
\* entry is the number of rows of the batch, all of them inserted, and is the
\* number of acc_users and acc_master rows the client owns right after the
\* commit.
C26_RecordCountIsRowCount ==
  [][\A p \in Procs :
       Commits(p)
         => /\ resp'[p].recordCount = Len(req[p].data.rows)
            /\ \A i \in SuccessOf(sync_logs', reqNo[p]) :
                 sync_logs'[i].records_synced = resp'[p].recordCount
            /\ resp'[p].recordCount =
                 Cardinality(RowsOf(acc_users', req[p].clientId))
                   + Cardinality(RowsOf(acc_master', req[p].clientId))]_vars

\* C29: the SUCCESS entry of a sync is committed in the step that commits
\* the sync's rows and in no other: the commit appends exactly that entry,
\* and a sync that has not committed, or was rolled back, has none.
C29_SuccessEntryIffCommitted ==
  [][\A p \in Procs :
       /\ Commits(p)
            => /\ Cardinality(SuccessOf(sync_logs', reqNo[p])) = 1
               /\ Len(sync_logs') = Len(sync_logs) + 1
               /\ resp'[p].status = 200
       /\ (pc[p] \in TxPcs \cup {"failed"} /\ Moves(p) /\ ~Commits(p))
            => /\ SuccessOf(sync_logs', reqNo[p]) = {}
               /\ UNCHANGED << acc_users, acc_master >>]_vars

\* one sync has committed and its SUCCESS entry is in the log; another was
\* rolled back after it had purged and has none
C29_Witness ==
  \E p, q \in Procs :
     /\ pc[p] = "done" /\ resp[p].status = 200
     /\ SuccessOf(sync_logs, reqNo[p]) # {}
     /\ pc[q] = "done" /\ resp[q].status = 500 /\ err[q].stmt \in {"ins", "log", "commit"}
     /\ SuccessOf(sync_logs, reqNo[q]) = {}

\* C30: when the write of the FAILED entry itself fails, the handler
\* swallows that failure: it appends nothing and answers what the original
\* error decides, 401 for UNAUTHORIZED and 500 for any other.
C30_LogWriteFailureIsSwallowed ==
  [][\A p \in Procs :
       (pc[p] = "failed" /\ Moves(p) /\ logErr'[p] # NoError)
         => /\ pc'[p] = "done"
            /\ sync_logs' = sync_logs
            /\ resp'[p].status = IF err[p].message = UNAUTHORIZED THEN 401 ELSE 500]_vars

\* a sync for an identifier without a client record was answered 401 and a
\* sync that hit a storage fault while purging was answered 500, and the
\* write of the FAILED entry failed for both
C30_Witness ==
  \E p, q \in Procs :
     /\ pc[p] = "done" /\ resp[p].status = 401 /\ logErr[p].message = ForeignKey
     /\ req[p].clientId = "c9"
     /\ pc[q] = "done" /\ resp[q].status = 500 /\ logErr[q].message = StorageFault

\* C23: once the caller of a sync has been answered 503 by the response
\* timeout, or has closed the connection, the sync's transaction changes no
\* destination table: it is rolled back, never committed.
C23_NoCommitAfterTimeout ==
  [][\A p \in Procs :
       (resp[p] \in {TimedOut, Closed} /\ pc[p] \in TxPcs /\ Moves(p))
         => UNCHANGED << acc_users, acc_master >>]_vars

\* a key without its case: the spellings of the keys ID and PASS
Folded(k) ==
  CASE k \in {"ID", "Id", "iD", "id"} -> "id"
    [] k \in {"PASS", "PASs", "PAss", "Pass", "pass"} -> "pass"
    [] OTHER -> k

\* the row carries a non-empty value under some spelling of the key
HasAnyCase(row, key) ==
  \E k \in DOMAIN row : Folded(k) = key /\ row[k] \notin {"", JsNull, Undefined}

\* C24: the loop inserts a row of the batch as a credential row exactly when
\* the row carries a non-empty identifier and a non-empty credential under
\* any case spelling of the keys ID and PASS, and as a master row otherwise.
C24_ClassifiesWithoutCase ==
  [][\A p \in Procs :
       (pc[p] = "ins" /\ Moves(p) /\ pc'[p] # "failed")
         => LET row == req[p].data.rows[idx[p]]
            IN  IF HasAnyCase(row, "id") /\ HasAnyCase(row, "pass")
                THEN tx'[p].insU # tx[p].insU /\ tx'[p].insM = tx[p].insM
                ELSE tx'[p].insM # tx[p].insM /\ tx'[p].insU = tx[p].insU]_vars

\* C28: a sync fails on a duplicate identifier only when its own batch
\* repeats the identifier: a credential row of another client with the same
\* identifier does not make it fail.
C28_OtherClientsRowsDoNotMatter ==
  [][\A p \in Procs :
       (pc[p] = "ins" /\ pc'[p] = "failed" /\ err'[p].message = DuplicateKey)
         => \E i \in 1..(idx[p] - 1) :
               LET mine == req[p].data.rows
               IN  /\ IsUserRow(mine[i])
                   /\ IntegerOf[UserId(mine[i])] = IntegerOf[UserId(mine[idx[p]])]]_vars

\* pcs of a sync call at which a purge statement is still to run or waiting
PurgePcs == {"delM", "delMw", "delU", "delUw"}

\* C31: within one sync call both purge DELETEs, acc_master first and
\* acc_users second, are complete before the first row of the batch is
\* inserted: while a purge is pending the call has inserted nothing, a row is
\* inserted only in the loop after the purge, no purged row is one the call
\* inserted, and the commit leaves every inserted row in its table.
C31_PurgeBeforeInsert ==
  [][\A p \in Procs :
       /\ (pc[p] \in PurgePcs \cup {"auth"})
            => tx[p].insU = {} /\ tx[p].insM = {}
       /\ (pc[p] \in PurgePcs /\ Moves(p) /\ pc'[p] # "failed")
            => /\ tx'[p].insU = {} /\ tx'[p].insM = {}
               /\ pc[p] \in {"delM", "delMw"} => pc'[p] \in {"delMw", "delU"}
               /\ pc[p] \in {"delU", "delUw"} => pc'[p] \in {"delUw", "ins", "log"}
       /\ (tx'[p].insU # tx[p].insU \/ tx'[p].insM # tx[p].insM) /\ pc'[p] \in TxPcs
            => /\ pc[p] = "ins"
               /\ tx'[p].delU = tx[p].delU /\ tx'[p].delM = tx[p].delM
               /\ tx'[p].delU \cap tx'[p].insU = {}
               /\ tx'[p].delM \cap tx'[p].insM = {}
       /\ (pc[p] = "commit" /\ Moves(p) /\ nFaults' = nFaults)
            => tx[p].insU \subseteq acc_users' /\ tx[p].insM \subseteq acc_master']_vars

\* a sync call has purged rows of both tables and inserted a row of each,
\* and is about to commit
C31_Witness ==
  \E p \in Procs :
     /\ pc[p] = "commit"
     /\ tx[p].delU # {} /\ tx[p].delM # {}
     /\ tx[p].insU # {} /\ tx[p].insM # {}

\* ------------------------------------------------ dbService.transaction
\* One call of transaction(callback), statement by statement.  What the
\* callback does to the tables is modelled by the handlers above; here it
\* either returns or throws.

\* what the callback passed to transaction() can do
CallbackOutcomes == {"returns", "throws"}

\* a statement sent on the pooled connection, and whether it succeeded
Stmt(text, ok) == [text |-> text, ok |-> ok]

\* a query rejected by the connection or the server
QueryError(text) == [message |-> StorageFault, stmt |-> text]

\* the error thrown by a callback
CallbackError == [message |-> UNAUTHORIZED, stmt |-> "callback"]

\* what transaction() leaves alone
outsideTx == << sync_users, acc_users, acc_master, sync_logs, pc, req, reqNo, tx,
                recordCount, idx, err, logErr, resp, lastSync, registry >>

\* transaction(callback) is called
TxCall(p, cb) ==
  /\ call[p].at = "idle"
  /\ nReq < MaxCalls
  /\ nReq' = nReq + 1
  /\ call' = [call EXCEPT ![p] = [NoCall EXCEPT !.at = "connect", !.cb = cb]]
  /\ UNCHANGED << idleConns, nFaults, outsideTx >>

\* const client = await pool.connect(): waits while no connection is idle;
\* a rejection leaves the function before its try
TxConnect(p) ==
  /\ call[p].at = "connect"
  /\ \/ /\ idleConns > 0
        /\ idleConns' = idleConns - 1
        /\ call' = [call EXCEPT ![p].client = TRUE, ![p].at = "begin"]
        /\ nFaults' = nFaults
     \/ /\ nFaults < MaxTxFaults
        /\ nFaults' = nFaults + 1
        /\ idleConns' = idleConns
        /\ call' = [call EXCEPT ![p].thrown = QueryError("connect"), ![p].at = "thrown"]
  /\ UNCHANGED << nReq, outsideTx >>

\* await client.query("BEGIN")
TxBegin(p) ==
  /\ call[p].at = "begin"
  /\ \/ /\ call' = [call EXCEPT ![p].stmts = Append(@, Stmt("BEGIN", TRUE)),
                                ![p].at = "callback"]
        /\ nFaults' = nFaults
     \/ /\ nFaults < MaxTxFaults
        /\ nFaults' = nFaults + 1
        /\ call' = [call EXCEPT ![p].stmts = Append(@, Stmt("BEGIN", FALSE)),
                                ![p].error = QueryError("BEGIN"),
                                ![p].at = "rollback"]
  /\ UNCHANGED << idleConns, nReq, outsideTx >>

\* const result = await callback(client)
TxCallback(p) ==
  /\ call[p].at = "callback"
  /\ IF call[p].cb = "returns"
       THEN call' = [call EXCEPT ![p].at = "commit"]
       ELSE call' = [call EXCEPT ![p].error = CallbackError, ![p].at = "rollback"]
  /\ UNCHANGED << idleConns, nReq, nFaults, outsideTx >>

\* await client.query("COMMIT"); return result
TxCommit(p) ==
  /\ call[p].at = "commit"
  /\ \/ /\ call' = [call EXCEPT ![p].stmts = Append(@, Stmt("COMMIT", TRUE)),
                                ![p].at = "finally"]
        /\ nFaults' = nFaults
     \/ /\ nFaults < MaxTxFaults
        /\ nFaults' = nFaults + 1
        /\ call' = [call EXCEPT ![p].stmts = Append(@, Stmt("COMMIT", FALSE)),
                                ![p].error = QueryError("COMMIT"),
                                ![p].at = "rollback"]
  /\ UNCHANGED << idleConns, nReq, outsideTx >>

\* catch (error) { await client.query("ROLLBACK"); logger.error(..); throw error }
\* a ROLLBACK that rejects throws out of the catch block before throw error
TxRollback(p) ==
  /\ call[p].at = "rollback"
  /\ \/ /\ call' = [call EXCEPT ![p].stmts = Append(@, Stmt("ROLLBACK", TRUE)),
                                ![p].thrown = call[p].error,
                                ![p].at = "finally"]
        /\ nFaults' = nFaults
     \/ /\ nFaults < MaxTxFaults
        /\ nFaults' = nFaults + 1
        /\ call' = [call EXCEPT ![p].stmts = Append(@, Stmt("ROLLBACK", FALSE)),
                                ![p].thrown = QueryError("ROLLBACK"),
                                ![p].at = "finally"]
  /\ UNCHANGED << idleConns, nReq, outsideTx >>

\* finally { client.release() }, then the return or the throw that was pending
TxFinally(p) ==
  /\ call[p].at = "finally"
  /\ idleConns' = idleConns + 1
  /\ call' = [call EXCEPT ![p].client = FALSE,
                          ![p].releases = @ + 1,
                          ![p].at = IF call[p].thrown = NoError THEN "returned" ELSE "thrown"]
  /\ UNCHANGED << nReq, nFaults, outsideTx >>

\* the caller has the result or the error
TxDone(p) ==
  /\ call[p].at \in {"returned", "thrown"}
  /\ call' = [call EXCEPT ![p] = NoCall]
  /\ UNCHANGED << idleConns, nReq, nFaults, outsideTx >>

NextTx ==
  \E p \in Procs :
     \/ \E cb \in CallbackOutcomes : TxCall(p, cb)
     \/ TxConnect(p)
     \/ TxBegin(p)
     \/ TxCallback(p)
     \/ TxCommit(p)
     \/ TxRollback(p)
     \/ TxFinally(p)
     \/ TxDone(p)

SpecTx == Init /\ [][NextTx]_vars

\* how many statements with this text a call has sent
CountOf(stmts, text) == Cardinality({i \in DOMAIN stmts : stmts[i].text = text})

\* the calls holding a pooled connection
Holders == {p \in Procs : call[p].client}

\* every begun transaction ends with one COMMIT or one ROLLBACK attempt, and
\* every connection taken is released once
TransactionsBalance ==
  /\ idleConns + Cardinality(Holders) = PoolMax
  /\ \A p \in Procs :
        /\ call[p].client <=> call[p].at \in {"begin", "callback", "commit", "rollback", "finally"}
        /\ call[p].releases <= 1
        /\ CountOf(call[p].stmts, "COMMIT") <= 1 /\ CountOf(call[p].stmts, "ROLLBACK") <= 1
        /\ call[p].at = "returned"
             => /\ call[p].stmts = << Stmt("BEGIN", TRUE), Stmt("COMMIT", TRUE) >>
                /\ call[p].releases = 1
                /\ call[p].cb = "returns"
        /\ (call[p].at = "thrown" /\ call[p].stmts # <<>>)
             => /\ CountOf(call[p].stmts, "ROLLBACK") = 1
                /\ call[p].stmts[Len(call[p].stmts)].text = "ROLLBACK"
                /\ Stmt("COMMIT", TRUE) \notin {call[p].stmts[i] : i \in DOMAIN call[p].stmts}
                /\ call[p].releases = 1
        /\ (call[p].at = "thrown" /\ call[p].stmts = <<>>)
             => call[p].releases = 0 /\ call[p].error = NoError

\* the caller gets the failure that ended the transaction
RethrowsTheFailure ==
  \A p \in Procs :
     (call[p].at = "thrown" /\ call[p].error # NoError) => call[p].thrown = call[p].error

\* C32: dbService.transaction ends every transaction it begins with exactly
\* one COMMIT (the callback returned normally) or one ROLLBACK attempt (BEGIN,
\* the callback or COMMIT threw), rethrows the failure to its caller, and
\* releases the pooled connection exactly once on every path, so that no
\* sequence of succeeding and failing transactions leaks a connection.
C32_TransactionEndsReleasesRethrows ==
  TransactionsBalance /\ RethrowsTheFailure

====
